---- MODULE Spec2Model ----
(***************************************************************************)
(* A model of the lhef crate: the streaming Writer of the Les Houches     *)
(* Event File format (src/src/writer.rs) with the text it emits, and the   *)
(* Reader (src/src/reader.rs) with the text it parses.                     *)
(*                                                                         *)
(* Text is a sequence of one-character strings, so that the bytes the      *)
(* writer appends to its stream are the bytes of the program.              *)
(***************************************************************************)
EXTENDS Integers, Sequences, FiniteSets, TLC

VARIABLES
    pc,      \* the caller's position: "unborn" (before Writer::new), "live", "gone" (dropped)
    state,   \* Writer.state (WriterState), "NoWriter" while no Writer value exists
    stream,  \* Writer.stream: every byte the underlying stream has accepted
    last,    \* the last call: operation, argument, state before it, bytes it appended, result
    ncalls,  \* number of method calls made on the writer
    init_written,  \* history: some heprup call has written its whole block
    finish_called,  \* history: the caller has called finish itself
    input,    \* the stream given to the first Reader, as the blocks it is made of
    rpc,      \* the reading caller's position: "idle", "start", "reading", "failed", "panicked"
    rstream,  \* Reader.stream: the text not yet read
    reader,   \* the Reader value (version, header, xml_header, heprup), None while there is none
    rlast,    \* the last call on the reader: operation, the line it read first, its result
    rhist,    \* the results of the hepeup calls made on the reader, in order
    original  \* a first Reader and its events, once they have been written back

\* the variables of the writer and of the reader
wvars == <<pc, state, stream, last, ncalls, init_written, finish_called>>
rvars == <<input, rpc, rstream, reader, rlast, rhist, original>>
vars == <<pc, state, stream, last, ncalls, init_written, finish_called,
          input, rpc, rstream, reader, rlast, rhist, original>>

(***************************************************************************)
(* Bounds of the model.                                                    *)
(***************************************************************************)
\* method calls made on one writer after Writer::new
MaxCalls == 3
\* a failing write_all has passed at most this many bytes on before the error
MaxPartial == 1

(***************************************************************************)
(* Text helpers (std::string::String, std::fmt).                           *)
(***************************************************************************)
NL == <<"\n">>
SP == <<" ">>
QUOTE == <<"\"">>

RECURSIVE Flatten(_)
\* concatenation of a sequence of texts
Flatten(ss) == IF ss = <<>> THEN <<>> ELSE Head(ss) \o Flatten(Tail(ss))

\* str::ends_with(c) for a single character
EndsWith(s, c) == Len(s) > 0 /\ s[Len(s)] = c

\* str::starts_with(c) for a single character
StartsWithChar(s, c) == Len(s) > 0 /\ s[1] = c

\* the first n elements of s (all of s when it is shorter)
Prefix(s, n) == SubSeq(s, 1, IF n < Len(s) THEN n ELSE Len(s))

DigitChars == <<"0", "1", "2", "3", "4", "5", "6", "7", "8", "9">>

RECURSIVE DecDigits(_)
\* decimal digits of a natural number
DecDigits(n) ==
    IF n < 10 THEN <<DigitChars[n + 1]>>
    ELSE DecDigits(n \div 10) \o <<DigitChars[(n % 10) + 1]>>

\* decimal digits of m + 1, for a natural number m
DecDigitsSucc(m) ==
    IF m % 10 = 9 THEN DecDigits((m \div 10) + 1) \o <<"0">>
    ELSE IF m < 10 THEN <<DigitChars[m + 2]>>
    ELSE DecDigits(m \div 10) \o <<DigitChars[(m % 10) + 2]>>

\* Display ("{}") of an i32 or isize: plain decimal, '-' for negatives; the
\* digits of -n are those of -(n + 1) + 1, which is in range for i32::MIN too
FmtInt(n) == IF n < 0 THEN <<"-">> \o DecDigitsSucc(-(n + 1)) ELSE DecDigits(n)

Zeros(n) == [i \in 1..n |-> "0"]

RECURSIVE DigitText(_)
\* the characters of a sequence of digits 0..9
DigitText(ds) ==
    IF ds = <<>> THEN <<>> ELSE <<DigitChars[Head(ds) + 1]>> \o DigitText(Tail(ds))

(***************************************************************************)
(* f64 values.  A finite value is sign * digits * 10^exp, where digits is  *)
(* the shortest decimal mantissa that identifies the f64 (no trailing      *)
(* zero); zero is digits = <<0>>, exp = 0.                                 *)
(***************************************************************************)
Fin(neg, digits, exp) == [kind |-> "finite", neg |-> neg, digits |-> digits, exp |-> exp]
\* a NaN is its sign bit and its payload; f64::NAN has neither
NaNWith(neg, payload) == [kind |-> "nan", neg |-> neg, digits |-> <<payload>>, exp |-> 0]
NaN == NaNWith(FALSE, 0)
Inf(neg) == [kind |-> "inf", neg |-> neg, digits |-> <<0>>, exp |-> 0]
IsZero(f) == f.kind = "finite" /\ f.digits = <<0>>

\* Display ("{}") of an f64: shortest digits, never an exponent, no ".0"
FmtF64Display(f) ==
    LET n == Len(f.digits)
        dp == n + f.exp
        sign == IF f.neg THEN <<"-">> ELSE <<>>
        d == DigitText(f.digits)
    IN  IF f.kind = "nan" THEN <<"N", "a", "N">>
        ELSE IF f.kind = "inf" THEN sign \o <<"i", "n", "f">>
        ELSE IF IsZero(f) THEN sign \o <<"0">>
        ELSE IF dp <= 0 THEN sign \o <<"0", ".">> \o Zeros(-dp) \o d
        ELSE IF dp < n THEN sign \o SubSeq(d, 1, dp) \o <<".">> \o SubSeq(d, dp + 1, n)
        ELSE sign \o d \o Zeros(dp - n)

\* ryu::Buffer::format of an f64
FmtRyu(f) ==
    LET n == Len(f.digits)
        k == f.exp
        kk == n + k
        sign == IF f.neg THEN <<"-">> ELSE <<>>
        d == DigitText(f.digits)
    IN  IF f.kind = "nan" THEN <<"N", "a", "N">>
        ELSE IF f.kind = "inf" THEN sign \o <<"i", "n", "f">>
        ELSE IF IsZero(f) THEN sign \o <<"0", ".", "0">>
        ELSE IF 0 <= k /\ kk <= 16 THEN sign \o d \o Zeros(k) \o <<".", "0">>
        ELSE IF 0 < kk /\ kk <= 16
            THEN sign \o SubSeq(d, 1, kk) \o <<".">> \o SubSeq(d, kk + 1, n)
        ELSE IF -5 < kk /\ kk <= 0 THEN sign \o <<"0", ".">> \o Zeros(-kk) \o d
        ELSE IF n = 1 THEN sign \o d \o <<"e">> \o FmtInt(kk - 1)
        ELSE sign \o SubSeq(d, 1, 1) \o <<".">> \o SubSeq(d, 2, n) \o <<"e">> \o FmtInt(kk - 1)

(***************************************************************************)
(* The literal tags of the format.                                         *)
(***************************************************************************)
LHEF_TAG_OPEN ==
    <<"<", "L", "e", "s", "H", "o", "u", "c", "h", "e", "s", "E", "v", "e", "n", "t", "s",
      " ", "v", "e", "r", "s", "i", "o", "n", "=">>
COMMENT_START == <<"<", "!", "-", "-">>
COMMENT_END == <<"-", "-", ">">>
HEADER_START == <<"<", "h", "e", "a", "d", "e", "r">>
HEADER_END == <<"<", "/", "h", "e", "a", "d", "e", "r", ">">>
INIT_START == <<"<", "i", "n", "i", "t">>
INIT_END == <<"<", "/", "i", "n", "i", "t", ">">>
EVENT_START == <<"<", "e", "v", "e", "n", "t">>
EVENT_END == <<"<", "/", "e", "v", "e", "n", "t", ">">>
LHEF_LAST_LINE ==
    <<"<", "/", "L", "e", "s", "H", "o", "u", "c", "h", "e", "s", "E", "v", "e", "n", "t", "s", ">">>

(***************************************************************************)
(* Data (src/src/data.rs).  XmlAttr is a HashMap<String, String>: a        *)
(* function from names to values.  A HashMap iterates in an order the      *)
(* program does not control: every iteration takes an order ord, a         *)
(* sequence of names, and visits the map's keys as they come in ord.       *)
(***************************************************************************)
EmptyAttr == [k \in {} |-> <<>>]

\* the keys of map m in the iteration order ord
KeysIn(m, ord) == SelectSeq(ord, LAMBDA k : k \in DOMAIN m)

\* the sequences that hold every element of S exactly once
Perms(S) ==
    {p \in [1..Cardinality(S) -> S] : \A i, j \in 1..Cardinality(S) : p[i] = p[j] => i = j}

\* Option<String>
None == [some |-> FALSE, val |-> <<>>]
Some(v) == [some |-> TRUE, val |-> v]

\* xmltree::Element, the fields the writer reads
XmlTree(name, attributes, children, text) ==
    [name |-> name, attributes |-> attributes, children |-> children, text |-> text]

HEPRUP(IDBMUP, EBMUP, PDFGUP, PDFSUP, IDWTUP, NPRUP, XSECUP, XERRUP, XMAXUP, LPRUP, info, attr) ==
    [IDBMUP |-> IDBMUP, EBMUP |-> EBMUP, PDFGUP |-> PDFGUP, PDFSUP |-> PDFSUP,
     IDWTUP |-> IDWTUP, NPRUP |-> NPRUP, XSECUP |-> XSECUP, XERRUP |-> XERRUP,
     XMAXUP |-> XMAXUP, LPRUP |-> LPRUP, info |-> info, attr |-> attr]

HEPEUP(NUP, IDRUP, XWGTUP, SCALUP, AQEDUP, AQCDUP, IDUP, ISTUP, MOTHUP, ICOLUP, PUP, VTIMUP, SPINUP, info, attr) ==
    [NUP |-> NUP, IDRUP |-> IDRUP, XWGTUP |-> XWGTUP, SCALUP |-> SCALUP,
     AQEDUP |-> AQEDUP, AQCDUP |-> AQCDUP, IDUP |-> IDUP, ISTUP |-> ISTUP,
     MOTHUP |-> MOTHUP, ICOLUP |-> ICOLUP, PUP |-> PUP, VTIMUP |-> VTIMUP,
     SPINUP |-> SPINUP, info |-> info, attr |-> attr]

(***************************************************************************)
(* WriterState, WriteError and the results of a call.                      *)
(***************************************************************************)
WriterState == {"ExpectingHeaderOrInit", "ExpectingEventOrFinish", "Finished", "Failed"}

OkResult == [kind |-> "Ok", state |-> "-", from |-> "-"]
BadState(st, from) == [kind |-> "BadState", state |-> st, from |-> from]
MismatchedSubprocesses == [kind |-> "MismatchedSubprocesses", state |-> "-", from |-> "-"]
MismatchedParticles == [kind |-> "MismatchedParticles", state |-> "-", from |-> "-"]
WriteToFailed == [kind |-> "WriteToFailed", state |-> "-", from |-> "-"]
\* the std::io::Error of the underlying stream
IoError == [kind |-> "Io", state |-> "-", from |-> "-"]

\* assert_state reporting the expected state in place of the current one
assert_state_reports_expected(st, expected, from) ==
    IF st # expected /\ st # "Failed" THEN BadState(expected, from) ELSE OkResult

\* assert_state without the exemption of Failed
assert_state_strict(st, expected, from) ==
    IF st # expected THEN BadState(st, from) ELSE OkResult

\* Writer::assert_state
assert_state(st, expected, from) ==
    IF st # expected /\ st # "Failed" THEN BadState(st, from) ELSE OkResult

\* ok_unless_failed that forgets the failure
ok_unless_failed_forgets(st) == OkResult

\* Writer::ok_unless_failed
ok_unless_failed(st) == IF st = "Failed" THEN WriteToFailed ELSE OkResult

(***************************************************************************)
(* Write::write_all on the underlying stream.  It either accepts the whole *)
(* output, or fails after the stream has accepted a proper prefix of it.   *)
(***************************************************************************)
IoOutcomes == {[ok |-> TRUE, n |-> 0]} \cup {[ok |-> FALSE, n |-> k] : k \in 0..MaxPartial}

\* the bytes the stream has accepted when write_all(output) returns
Accepted(output, io) ==
    IF io.ok THEN output
    ELSE Prefix(output, IF io.n < Len(output) THEN io.n ELSE Len(output) - 1)

(***************************************************************************)
(* The text each Writer method builds before it writes.                    *)
(***************************************************************************)
RECURSIVE AttrText(_, _, _)
\* for (key, value) in map { write!(output, "{lead}{key}=\"{value}\"") }, over keys
AttrText(m, keys, lead) ==
    IF keys = <<>> THEN <<>>
    ELSE lead \o Head(keys) \o <<"=">> \o QUOTE \o m[Head(keys)] \o QUOTE
         \o AttrText(m, Tail(keys), lead)

RECURSIVE xml_to_string(_, _), ChildrenText(_, _)
\* xml_to_string
xml_to_string(xml, ord) ==
    <<"<">> \o xml.name
    \o AttrText(xml.attributes, KeysIn(xml.attributes, ord), SP)
    \o <<">">>
    \o (IF xml.text.some THEN xml.text.val ELSE <<>>)
    \o ChildrenText(xml.children, ord)
    \o <<"<", "/">> \o xml.name \o <<">">>

\* for child in &xml.children { xml_to_string(child, output) }
ChildrenText(cs, ord) ==
    IF cs = <<>> THEN <<>> ELSE xml_to_string(Head(cs), ord) \o ChildrenText(Tail(cs), ord)

HeaderName == <<"h", "e", "a", "d", "e", "r">>

\* the output of Writer::header
header_output(header) == COMMENT_START \o NL \o header \o NL \o COMMENT_END \o NL

\* the output of Writer::xml_header
xml_header_output(header, ord) ==
    HEADER_START
    \o (IF header.name # HeaderName
        THEN <<">">> \o NL \o xml_to_string(header, ord) \o NL
        ELSE AttrText(header.attributes, KeysIn(header.attributes, ord), SP)
             \o <<">">>
             \o (IF header.children # <<>>
                 THEN NL \o ChildrenText(header.children, ord) ELSE <<>>)
             \o (IF ~header.text.some THEN NL
                 ELSE (IF header.children = <<>> /\ ~StartsWithChar(header.text.val, "\n")
                       THEN NL ELSE <<>>)
                      \o header.text.val
                      \o (IF ~EndsWith(header.text.val, "\n") THEN NL ELSE <<>>)))
    \o HEADER_END \o NL

RECURSIVE IntsSp(_)
\* for entry in ints { write!(output, "{} ", entry) }
IntsSp(xs) == IF xs = <<>> THEN <<>> ELSE FmtInt(Head(xs)) \o SP \o IntsSp(Tail(xs))

RECURSIVE FloatsSp(_)
\* for entry in floats { write!(output, "{} ", entry) }
FloatsSp(xs) == IF xs = <<>> THEN <<>> ELSE FmtF64Display(Head(xs)) \o SP \o FloatsSp(Tail(xs))

RECURSIVE RyuSp(_)
\* for p in floats { write!(output, "{} ", buffer.format(*p)) }
RyuSp(xs) == IF xs = <<>> THEN <<>> ELSE FmtRyu(Head(xs)) \o SP \o RyuSp(Tail(xs))

\* the free text followed by a newline unless it is empty or ends in one
InfoText(info) ==
    IF info = <<>> THEN <<>> ELSE info \o (IF ~EndsWith(info, "\n") THEN NL ELSE <<>>)

\* i32 `as usize` compared with a Vec length: a negative i32 becomes a value
\* above isize::MAX, which no length reaches
UsizeNe(n, len) == n < 0 \/ n # len

\* the length check of heprup without its last comparison
heprup_mismatch_skips_LPRUP(runinfo) ==
    \/ UsizeNe(runinfo.NPRUP, Len(runinfo.XSECUP))
    \/ UsizeNe(runinfo.NPRUP, Len(runinfo.XERRUP))
    \/ UsizeNe(runinfo.NPRUP, Len(runinfo.XMAXUP))

\* the length check of Writer::heprup
heprup_mismatch(runinfo) ==
    \/ UsizeNe(runinfo.NPRUP, Len(runinfo.XSECUP))
    \/ UsizeNe(runinfo.NPRUP, Len(runinfo.XERRUP))
    \/ UsizeNe(runinfo.NPRUP, Len(runinfo.XMAXUP))
    \/ UsizeNe(runinfo.NPRUP, Len(runinfo.LPRUP))

\* the smallest of a set of lengths: izip! stops with its shortest sequence
MinLen(lens) == CHOOSE n \in lens : \A m \in lens : n <= m

\* the output of Writer::heprup
heprup_output(runinfo, ord) ==
    LET count == MinLen({Len(runinfo.XSECUP), Len(runinfo.XERRUP), Len(runinfo.XMAXUP),
                         Len(runinfo.LPRUP)})
        RECURSIVE Sub(_)
        Sub(i) ==
            IF i > count THEN <<>>
            ELSE FmtF64Display(runinfo.XSECUP[i]) \o SP \o FmtF64Display(runinfo.XERRUP[i])
                 \o SP \o FmtF64Display(runinfo.XMAXUP[i]) \o SP \o FmtInt(runinfo.LPRUP[i])
                 \o NL \o Sub(i + 1)
    IN  INIT_START
        \o AttrText(runinfo.attr, KeysIn(runinfo.attr, ord), <<>>)
        \o <<">">> \o NL
        \o IntsSp(runinfo.IDBMUP) \o FloatsSp(runinfo.EBMUP)
        \o IntsSp(runinfo.PDFGUP) \o IntsSp(runinfo.PDFSUP)
        \o FmtInt(runinfo.IDWTUP) \o SP
        \o FmtInt(runinfo.NPRUP) \o NL
        \o Sub(1)
        \o InfoText(runinfo.info)
        \o INIT_END \o NL

\* the length check of hepeup without its last comparison
hepeup_mismatch_skips_SPINUP(event) ==
    \/ UsizeNe(event.NUP, Len(event.IDUP))
    \/ UsizeNe(event.NUP, Len(event.ISTUP))
    \/ UsizeNe(event.NUP, Len(event.MOTHUP))
    \/ UsizeNe(event.NUP, Len(event.ICOLUP))
    \/ UsizeNe(event.NUP, Len(event.PUP))
    \/ UsizeNe(event.NUP, Len(event.VTIMUP))

\* the length check of Writer::hepeup
hepeup_mismatch(event) ==
    \/ UsizeNe(event.NUP, Len(event.IDUP))
    \/ UsizeNe(event.NUP, Len(event.ISTUP))
    \/ UsizeNe(event.NUP, Len(event.MOTHUP))
    \/ UsizeNe(event.NUP, Len(event.ICOLUP))
    \/ UsizeNe(event.NUP, Len(event.PUP))
    \/ UsizeNe(event.NUP, Len(event.VTIMUP))
    \/ UsizeNe(event.NUP, Len(event.SPINUP))

\* the output of Writer::hepeup
hepeup_output(event, ord) ==
    LET count == MinLen({Len(event.IDUP), Len(event.ISTUP), Len(event.MOTHUP),
                         Len(event.ICOLUP), Len(event.PUP), Len(event.VTIMUP),
                         Len(event.SPINUP)})
        RECURSIVE Particles(_)
        Particles(i) ==
            IF i > count THEN <<>>
            ELSE FmtInt(event.IDUP[i]) \o SP \o FmtInt(event.ISTUP[i]) \o SP
                 \o IntsSp(event.MOTHUP[i]) \o IntsSp(event.ICOLUP[i])
                 \o RyuSp(event.PUP[i])
                 \o FmtRyu(event.VTIMUP[i]) \o SP
                 \o FmtRyu(event.SPINUP[i]) \o NL
                 \o Particles(i + 1)
    IN  EVENT_START
        \o AttrText(event.attr, KeysIn(event.attr, ord), SP)
        \o <<">">> \o NL
        \o FmtInt(event.NUP) \o SP \o FmtInt(event.IDRUP) \o SP
        \o FmtRyu(event.XWGTUP) \o SP \o FmtRyu(event.SCALUP) \o SP
        \o FmtRyu(event.AQEDUP) \o SP \o FmtRyu(event.AQCDUP) \o NL
        \o Particles(1)
        \o InfoText(event.info)
        \o EVENT_END \o NL

\* the output of Writer::hepeup as src/src/lib.rs defines it: the floats with
\* Display, and "{} {} {} {} {} {} " followed by ">\n" for the scalar fields
lib_hepeup_output(event, ord) ==
    LET count == MinLen({Len(event.IDUP), Len(event.ISTUP), Len(event.MOTHUP),
                         Len(event.ICOLUP), Len(event.PUP), Len(event.VTIMUP),
                         Len(event.SPINUP)})
        RECURSIVE Particles(_)
        Particles(i) ==
            IF i > count THEN <<>>
            ELSE FmtInt(event.IDUP[i]) \o SP \o FmtInt(event.ISTUP[i]) \o SP
                 \o IntsSp(event.MOTHUP[i]) \o IntsSp(event.ICOLUP[i])
                 \o FloatsSp(event.PUP[i])
                 \o FmtF64Display(event.VTIMUP[i]) \o SP
                 \o FmtF64Display(event.SPINUP[i]) \o NL
                 \o Particles(i + 1)
    IN  EVENT_START
        \o AttrText(event.attr, KeysIn(event.attr, ord), SP)
        \o <<">">> \o NL
        \o FmtInt(event.NUP) \o SP \o FmtInt(event.IDRUP) \o SP
        \o FloatsSp(<<event.XWGTUP, event.SCALUP, event.AQEDUP, event.AQCDUP>>)
        \o <<">">> \o NL
        \o Particles(1)
        \o InfoText(event.info)
        \o EVENT_END \o NL

\* the output of Writer::finish
finish_output == LHEF_LAST_LINE \o NL

\* the opening line without the quotes around the version
new_output_unquoted(version) == LHEF_TAG_OPEN \o version \o <<">">> \o NL

\* the output of Writer::new
new_output(version) == LHEF_TAG_OPEN \o QUOTE \o version \o QUOTE \o <<">">> \o NL

(***************************************************************************)
(* The arguments the caller passes.                                        *)
(***************************************************************************)
Versions == {<<"1", ".", "0">>, <<"4", ".", "0">>}

HeaderTexts == {<<"h">>, <<"a", "\n">>}

AttrNames == {<<"a">>, <<"b">>}
AttrOrders == Perms(AttrNames)

OneAttr == [k \in {<<"a">>} |-> <<"v">>]
TwoAttr == [k \in AttrNames |-> IF k = <<"a">> THEN <<"v">> ELSE <<>>]

XmlTrees ==
    { XmlTree(HeaderName, TwoAttr, <<>>, Some(<<"x">>)),
      XmlTree(HeaderName, EmptyAttr,
              <<XmlTree(<<"c">>, OneAttr, <<>>, Some(<<"\n", "t", "\n">>))>>, None),
      XmlTree(<<"m">>, OneAttr, <<>>, Some(<<"y">>)) }

\* 7000.0, 0.5, 1.5e20, -2.5
F7000 == Fin(FALSE, <<7>>, 3)
FHalf == Fin(FALSE, <<5>>, -1)
FBig == Fin(FALSE, <<1, 5>>, 19)
FNeg == Fin(TRUE, <<2, 5>>, -1)
FZero == Fin(FALSE, <<0>>, 0)

HEPRUPs ==
    { HEPRUP(<<2212, -11>>, <<F7000, FHalf>>, <<0, 0>>, <<230, 230>>, 2, 1,
             <<FBig>>, <<FHalf>>, <<FNeg>>, <<1>>, <<>>, EmptyAttr),
      HEPRUP(<<1, 1>>, <<FZero, FZero>>, <<0, 0>>, <<0, 0>>, 3, 0,
             <<>>, <<>>, <<>>, <<>>, <<"i">>, TwoAttr),
      HEPRUP(<<1, 1>>, <<FZero, FZero>>, <<0, 0>>, <<0, 0>>, 3, 1,
             <<FHalf>>, <<FHalf>>, <<FHalf>>, <<>>, <<>>, EmptyAttr),
      HEPRUP(<<1, 1>>, <<FZero, FZero>>, <<0, 0>>, <<0, 0>>, 3, -1,
             <<>>, <<>>, <<>>, <<>>, <<>>, EmptyAttr) }

HEPEUPs ==
    { HEPEUP(1, 1, FBig, F7000, FHalf, Fin(FALSE, <<1, 2>>, -6),
             <<21>>, <<-1>>, <<<<0, 0>>>>, <<<<501, 0>>>>,
             <<<<FZero, FZero, FNeg, FHalf, FZero>>>>, <<FZero>>, <<Fin(TRUE, <<1>>, 0)>>,
             <<>>, EmptyAttr),
      HEPEUP(0, 2, FHalf, FHalf, FHalf, FHalf,
             <<>>, <<>>, <<>>, <<>>, <<>>, <<>>, <<>>, <<"#", "\n">>, TwoAttr),
      HEPEUP(1, 2, FHalf, FHalf, FHalf, FHalf,
             <<1>>, <<1>>, <<<<0, 0>>>>, <<<<0, 0>>>>,
             <<<<FZero, FZero, FZero, FZero, FZero>>>>, <<FZero>>, <<>>, <<>>, EmptyAttr),
      HEPEUP(-1, 2, FHalf, FHalf, FHalf, FHalf,
             <<>>, <<>>, <<>>, <<>>, <<>>, <<>>, <<>>, <<>>, EmptyAttr) }

NoArg == <<>>

(***************************************************************************)
(* The state machine.                                                      *)
(***************************************************************************)
\* no call has been made on a reader
NoCall == [op |-> "none", line |-> <<>>, ok |-> TRUE, val |-> <<>>,
           err |-> [kind |-> "-", arg |-> <<>>]]

\* no Writer has been made
WriterIdle ==
    /\ pc = "unborn"
    /\ state = "NoWriter"
    /\ stream = <<>>
    /\ last = [op |-> "none", arg |-> NoArg, pre |-> "NoWriter", written |-> <<>>,
               result |-> OkResult, io |-> "none", had_init |-> FALSE]
    /\ ncalls = 0
    /\ init_written = FALSE
    /\ finish_called = FALSE

\* no Reader has been made and none is going to be
ReaderIdle ==
    /\ input = <<>>
    /\ rpc = "idle"
    /\ rstream = <<>>
    /\ reader = None
    /\ rlast = NoCall
    /\ rhist = <<>>
    /\ original = None

Init == WriterIdle /\ ReaderIdle

\* the end of a method call: the new state, the bytes the stream accepted, the
\* value returned; io is "none" when the call returned before write_all
Return(op, arg, st, bytes, result, io) ==
    /\ state' = st
    /\ stream' = stream \o bytes
    /\ last' = [op |-> op, arg |-> arg, pre |-> state, written |-> bytes,
                result |-> result, io |-> io, had_init |-> init_written]
    /\ init_written' = (init_written \/ (op = "heprup" /\ io = "ok"))
    /\ finish_called' = (finish_called \/ op = "finish")
    /\ UNCHANGED rvars

\* heprup moving to ExpectingEventOrFinish without looking at the state
heprup_next_state_unguarded(st) == "ExpectingEventOrFinish"

\* heprup leaving the state as it is
heprup_next_state_stays(st) == st

\* heprup, after its write succeeded: if self.state != Failed { self.state = ExpectingEventOrFinish }
heprup_next_state(st) == IF st # "Failed" THEN "ExpectingEventOrFinish" ELSE st

\* finish leaving the state as it is
finish_next_state_stays(st) == st

\* finish moving to Finished without looking at the state
finish_next_state_unguarded(st) == "Finished"

\* finish, after its write succeeded: if self.state != Failed { self.state = Finished }
finish_next_state(st) == IF st # "Failed" THEN "Finished" ELSE st

\* Writer::new
New(version, io) ==
    /\ pc = "unborn"
    /\ LET output == new_output(version)
       IN  IF io.ok
           THEN /\ pc' = "live"
                /\ Return("new", version, "ExpectingHeaderOrInit", output, OkResult, "ok")
           ELSE /\ pc' = "gone"
                /\ Return("new", version, "NoWriter", Accepted(output, io), IoError, "failed")
    /\ UNCHANGED ncalls

\* Writer::header
Header(header, io) ==
    /\ pc = "live" /\ ncalls < MaxCalls
    /\ LET check == assert_state(state, "ExpectingHeaderOrInit", "header")
           output == header_output(header)
       IN  IF check # OkResult THEN Return("header", header, state, <<>>, check, "none")
           ELSE IF io.ok
               THEN Return("header", header, state, output, ok_unless_failed(state), "ok")
               ELSE Return("header", header, "Failed", Accepted(output, io), IoError, "failed")
    /\ ncalls' = ncalls + 1
    /\ UNCHANGED pc

\* Writer::xml_header
XmlHeader(header, ord, io) ==
    /\ pc = "live" /\ ncalls < MaxCalls
    /\ LET check == assert_state(state, "ExpectingHeaderOrInit", "xml header")
           output == xml_header_output(header, ord)
       IN  IF check # OkResult THEN Return("xml_header", header, state, <<>>, check, "none")
           ELSE IF io.ok
               THEN Return("xml_header", header, state, output, ok_unless_failed(state), "ok")
               ELSE Return("xml_header", header, "Failed", Accepted(output, io), IoError,
                           "failed")
    /\ ncalls' = ncalls + 1
    /\ UNCHANGED pc

\* Writer::heprup
Heprup(runinfo, ord, io) ==
    /\ pc = "live" /\ ncalls < MaxCalls
    /\ LET check == assert_state(state, "ExpectingHeaderOrInit", "init")
           output == heprup_output(runinfo, ord)
           next == heprup_next_state(state)
       IN  IF check # OkResult THEN Return("heprup", runinfo, state, <<>>, check, "none")
           ELSE IF heprup_mismatch(runinfo)
               THEN Return("heprup", runinfo, state, <<>>, MismatchedSubprocesses, "none")
           ELSE IF ~io.ok
               THEN Return("heprup", runinfo, "Failed", Accepted(output, io), IoError, "failed")
           ELSE Return("heprup", runinfo, next, output, ok_unless_failed(next), "ok")
    /\ ncalls' = ncalls + 1
    /\ UNCHANGED pc

\* hepeup without its state check
Hepeup_unchecked(event, ord, io) ==
    /\ pc = "live" /\ ncalls < MaxCalls
    /\ LET output == hepeup_output(event, ord)
       IN  IF hepeup_mismatch(event)
               THEN Return("hepeup", event, state, <<>>, MismatchedParticles, "none")
           ELSE IF io.ok
               THEN Return("hepeup", event, state, output, ok_unless_failed(state), "ok")
           ELSE Return("hepeup", event, "Failed", Accepted(output, io), IoError, "failed")
    /\ ncalls' = ncalls + 1
    /\ UNCHANGED pc

\* Writer::hepeup
Hepeup(event, ord, io) ==
    /\ pc = "live" /\ ncalls < MaxCalls
    /\ LET check == assert_state(state, "ExpectingEventOrFinish", "event")
           output == hepeup_output(event, ord)
       IN  IF check # OkResult THEN Return("hepeup", event, state, <<>>, check, "none")
           ELSE IF hepeup_mismatch(event)
               THEN Return("hepeup", event, state, <<>>, MismatchedParticles, "none")
           ELSE IF io.ok
               THEN Return("hepeup", event, state, output, ok_unless_failed(state), "ok")
           ELSE Return("hepeup", event, "Failed", Accepted(output, io), IoError, "failed")
    /\ ncalls' = ncalls + 1
    /\ UNCHANGED pc

\* finish that does not latch a failed write
Finish_unlatched(io) ==
    /\ pc = "live" /\ ncalls < MaxCalls
    /\ LET check == assert_state(state, "ExpectingEventOrFinish", "finish")
           next == finish_next_state(state)
       IN  IF check # OkResult THEN Return("finish", NoArg, state, <<>>, check, "none")
           ELSE IF ~io.ok
               THEN Return("finish", NoArg, state, Accepted(finish_output, io), IoError,
                           "failed")
           ELSE Return("finish", NoArg, next, finish_output, ok_unless_failed(next), "ok")
    /\ ncalls' = ncalls + 1
    /\ UNCHANGED pc

\* Writer::finish
Finish(io) ==
    /\ pc = "live" /\ ncalls < MaxCalls
    /\ LET check == assert_state(state, "ExpectingEventOrFinish", "finish")
           next == finish_next_state(state)
       IN  IF check # OkResult THEN Return("finish", NoArg, state, <<>>, check, "none")
           ELSE IF ~io.ok
               THEN Return("finish", NoArg, "Failed", Accepted(finish_output, io), IoError,
                           "failed")
           ELSE Return("finish", NoArg, next, finish_output, ok_unless_failed(next), "ok")
    /\ ncalls' = ncalls + 1
    /\ UNCHANGED pc

\* a drop that never finishes
Drop_without_finish(io) ==
    /\ pc = "live"
    /\ pc' = "gone"
    /\ Return("drop", NoArg, state, <<>>, OkResult, "none")
    /\ UNCHANGED ncalls

\* a drop that finishes whatever has been written, unless the file is finished
Drop_always_finishes(io) ==
    /\ pc = "live"
    /\ pc' = "gone"
    /\ IF state # "Finished"
       THEN IF ~io.ok
            THEN Return("drop", NoArg, "Failed", Accepted(finish_output, io), OkResult, "failed")
            ELSE Return("drop", NoArg, finish_next_state(state), finish_output, OkResult, "ok")
       ELSE Return("drop", NoArg, state, <<>>, OkResult, "none")
    /\ UNCHANGED ncalls

\* impl Drop for Writer: finish() when a run info has been written and the file
\* is not finished; the result of that finish is discarded
Drop(io) ==
    /\ pc = "live"
    /\ pc' = "gone"
    /\ IF state = "ExpectingEventOrFinish"
       THEN IF ~io.ok
            THEN Return("drop", NoArg, "Failed", Accepted(finish_output, io), OkResult, "failed")
            ELSE Return("drop", NoArg, finish_next_state(state), finish_output, OkResult, "ok")
       ELSE Return("drop", NoArg, state, <<>>, OkResult, "none")
    /\ UNCHANGED ncalls

Next ==
    \/ \E version \in Versions, io \in IoOutcomes : New(version, io)
    \/ \E header \in HeaderTexts, io \in IoOutcomes : Header(header, io)
    \/ \E header \in XmlTrees, ord \in AttrOrders, io \in IoOutcomes : XmlHeader(header, ord, io)
    \/ \E runinfo \in HEPRUPs, ord \in AttrOrders, io \in IoOutcomes : Heprup(runinfo, ord, io)
    \/ \E event \in HEPEUPs, ord \in AttrOrders, io \in IoOutcomes : Hepeup(event, ord, io)
    \/ \E io \in IoOutcomes : Finish(io)
    \/ \E io \in IoOutcomes : Drop(io)

Spec == Init /\ [][Next]_vars

(***************************************************************************)
(* The Reader (src/src/reader.rs).  A stream is the text not yet read;     *)
(* every parsing function takes it and hands back what is left of it.      *)
(*                                                                         *)
(* Primitives of std::str on texts.                                        *)
(***************************************************************************)
\* char::is_whitespace, on the characters the model's texts are made of
IsWs(c) == c \in {" ", "\n", "\t", "\r"}

\* str::find: the index of the first character that satisfies Test, 0 for None
Find(s, Test(_)) ==
    LET hits == {i \in 1..Len(s) : Test(s[i])}
    IN  IF hits = {} THEN 0 ELSE CHOOSE i \in hits : \A j \in hits : i <= j

\* str::rfind: the index of the last character that satisfies Test, 0 for None
FindLast(s, Test(_)) ==
    LET hits == {i \in 1..Len(s) : Test(s[i])}
    IN  IF hits = {} THEN 0 ELSE CHOOSE i \in hits : \A j \in hits : i >= j

\* str::trim_start
TrimStart(s) ==
    LET i == Find(s, LAMBDA c : ~IsWs(c)) IN IF i = 0 THEN <<>> ELSE SubSeq(s, i, Len(s))

\* str::trim_end
TrimEnd(s) == SubSeq(s, 1, FindLast(s, LAMBDA c : ~IsWs(c)))

\* str::trim
Trim(s) == TrimEnd(TrimStart(s))

\* str::starts_with(&str)
StartsWith(s, p) == Len(s) >= Len(p) /\ SubSeq(s, 1, Len(p)) = p

\* BufRead::read_line on an in-memory stream: the text up to and including
\* the first newline, or all that is left; an empty line only at end of input
read_line(s) ==
    LET i == Find(s, LAMBDA c : c = "\n")
    IN  IF i = 0 THEN [line |-> s, rest |-> <<>>]
        ELSE [line |-> SubSeq(s, 1, i), rest |-> SubSeq(s, i + 1, Len(s))]

RECURSIVE Split(_, _)
\* str::split(char): the pieces between the separators, at least one piece
Split(s, sep) ==
    LET i == Find(s, LAMBDA c : c = sep)
    IN  IF i = 0 THEN <<s>>
        ELSE <<SubSeq(s, 1, i - 1)>> \o Split(SubSeq(s, i + 1, Len(s)), sep)

RECURSIVE SplitWhitespace(_)
\* str::split_whitespace: the non-empty tokens between runs of whitespace
SplitWhitespace(s) ==
    LET t == TrimStart(s)
        i == Find(t, IsWs)
    IN  IF t = <<>> THEN <<>>
        ELSE IF i = 0 THEN <<t>>
        ELSE <<SubSeq(t, 1, i - 1)>> \o SplitWhitespace(SubSeq(t, i, Len(t)))

\* str::lines().last() of a non-empty text: the last line without its line
\* ending ("\n" or "\r\n")
LastLine(s) ==
    LET ended == EndsWith(s, "\n")
        body == IF ended THEN SubSeq(s, 1, Len(s) - 1) ELSE s
        line == SubSeq(body, FindLast(body, LAMBDA c : c = "\n") + 1, Len(body))
    IN  IF ended /\ EndsWith(line, "\r") THEN SubSeq(line, 1, Len(line) - 1) ELSE line

\* pop_line: drop the last character, then all that follows the last newline
pop_line(s) ==
    LET t == SubSeq(s, 1, Len(s) - 1)
    IN  SubSeq(t, 1, FindLast(t, LAMBDA c : c = "\n"))

\* str::eq_ignore_ascii_case against a lower-case word
LowerOf(c) ==
    CASE c = "I" -> "i" [] c = "N" -> "n" [] c = "F" -> "f" [] c = "A" -> "a"
      [] c = "T" -> "t" [] c = "Y" -> "y" [] OTHER -> c
Lower(s) == [i \in 1..Len(s) |-> LowerOf(s[i])]

(***************************************************************************)
(* Results.  Ok(v) or Err(e); a ParseError is its variant and its payload  *)
(* (a text).  A panic is kept apart from the errors that are returned.     *)
(***************************************************************************)
Ok(v) == [ok |-> TRUE, val |-> v, err |-> [kind |-> "-", arg |-> <<>>]]
Err(e) == [ok |-> FALSE, val |-> <<>>, err |-> e]

BadFirstLine(line) == [kind |-> "BadFirstLine", arg |-> line]
BadHeaderStart(line) == [kind |-> "BadHeaderStart", arg |-> line]
BadXmlTag(tag) == [kind |-> "BadXmlTag", arg |-> tag]
BadEventStart(line) == [kind |-> "BadEventStart", arg |-> line]
MissingEntry(name) == [kind |-> "MissingEntry", arg |-> name]
ConversionError(text) == [kind |-> "ConversionError", arg |-> text]
UnsupportedVersion(version) == [kind |-> "UnsupportedVersion", arg |-> version]
MissingVersion == [kind |-> "MissingVersion", arg |-> <<>>]
EndOfFile(block) == [kind |-> "EndOfFile", arg |-> block]
\* the error of the xmltree crate
XmlParseError == [kind |-> "XmlParseError", arg |-> <<>>]
\* a panic of the thread ("capacity overflow" of Vec::with_capacity)
Panic == [kind |-> "panic", arg |-> <<>>]
ParseErrorKinds ==
    {"BadFirstLine", "BadHeaderStart", "BadXmlTag", "BadEventStart", "MissingEntry",
     "ConversionError", "UnsupportedVersion", "MissingVersion", "EndOfFile"}

(***************************************************************************)
(* Numbers: <i32 as FromStr>::from_str and fast_float::parse.              *)
(***************************************************************************)
IsDigit(c) == c \in {"0", "1", "2", "3", "4", "5", "6", "7", "8", "9"}
DigitVal(c) == CHOOSE d \in 0..9 : DigitChars[d + 1] = c

\* a text that is made of digits only
AllDigits(s) == \A i \in 1..Len(s) : IsDigit(s[i])

\* a text of digits without its leading zeros
StripZeros(ds) ==
    LET i == Find(ds, LAMBDA c : c # "0") IN IF i = 0 THEN <<>> ELSE SubSeq(ds, i, Len(ds))

RECURSIVE NatOf(_)
\* the value of a text of digits
NatOf(ds) ==
    IF ds = <<>> THEN 0
    ELSE NatOf(SubSeq(ds, 1, Len(ds) - 1)) * 10 + DigitVal(ds[Len(ds)])

RECURSIVE DigitsLeq(_, _)
\* a <= b for two texts of digits of one length
DigitsLeq(a, b) ==
    IF a = <<>> THEN TRUE
    ELSE IF DigitVal(Head(a)) # DigitVal(Head(b)) THEN DigitVal(Head(a)) < DigitVal(Head(b))
    ELSE DigitsLeq(Tail(a), Tail(b))

\* the digits of i32::MAX and of -i32::MIN
I32MaxDigits == <<"2", "1", "4", "7", "4", "8", "3", "6", "4", "7">>
I32MinDigits == <<"2", "1", "4", "7", "4", "8", "3", "6", "4", "8">>

\* the i32 of a sign and digits: None for no digit, a character that is no
\* digit, or a value outside the range of i32
I32FromDigits(neg, ds, sig) ==
    IF ds = <<>> \/ ~AllDigits(ds) THEN [ok |-> FALSE, val |-> 0]
    ELSE IF Len(sig) > 10 THEN [ok |-> FALSE, val |-> 0]
    ELSE IF Len(sig) = 10 /\ ~DigitsLeq(sig, IF neg THEN I32MinDigits ELSE I32MaxDigits)
        THEN [ok |-> FALSE, val |-> 0]
    ELSE IF sig = <<>> THEN [ok |-> TRUE, val |-> 0]
    ELSE IF neg
        THEN [ok |-> TRUE,
              val |-> (-(NatOf(SubSeq(sig, 1, Len(sig) - 1)) * 10)) - DigitVal(sig[Len(sig)])]
    ELSE [ok |-> TRUE,
          val |-> NatOf(SubSeq(sig, 1, Len(sig) - 1)) * 10 + DigitVal(sig[Len(sig)])]

\* text.parse::<i32>(): an optional sign, then digits only, within the range of i32
FromStrI32(text) ==
    IF Len(text) > 0 /\ text[1] \in {"+", "-"}
    THEN I32FromDigits(text[1] = "-", Tail(text), StripZeros(Tail(text)))
    ELSE I32FromDigits(FALSE, text, StripZeros(text))

\* the digits 0..9 of a text of digits
DigitsOf(ds) == [i \in 1..Len(ds) |-> DigitVal(ds[i])]

\* the f64 nearest to sign * lead * 10^exp, for digits lead without leading
\* zeros, at most 15 of them significant: its shortest decimal form is lead
\* without its trailing zeros; beyond the range of f64 it is infinite or zero
NearestF64(neg, lead, exp) ==
    LET n == FindLast(lead, LAMBDA c : c # "0")
    IN  IF n = 0 THEN Fin(neg, <<0>>, 0)
        ELSE IF Len(lead) + exp > 309 THEN Inf(neg)
        ELSE IF Len(lead) + exp < -323 THEN Fin(neg, <<0>>, 0)
        ELSE Fin(neg, DigitsOf(SubSeq(lead, 1, n)), exp + (Len(lead) - n))

\* the exponent of a float: an optional sign and digits, at least one
ExponentOk(e) ==
    IF Len(e) > 0 /\ e[1] \in {"+", "-"} THEN Len(e) > 1 /\ AllDigits(Tail(e))
    ELSE Len(e) > 0 /\ AllDigits(e)

\* its value, saturated
ExponentAbs(sig) == IF Len(sig) > 4 THEN 9999 ELSE NatOf(sig)
ExponentVal(e) ==
    IF e = <<>> THEN 0
    ELSE IF e[1] = "-" THEN -ExponentAbs(StripZeros(Tail(e)))
    ELSE IF e[1] = "+" THEN ExponentAbs(StripZeros(Tail(e)))
    ELSE ExponentAbs(StripZeros(e))

\* the float of a sign, the parts of the mantissa around its '.', and the
\* exponent after 'e' where there is one
FloatFromParts(neg, parts, hasE, e) ==
    IF /\ Len(parts) <= 2
       /\ \A i \in 1..Len(parts) : AllDigits(parts[i])
       /\ Len(Flatten(parts)) > 0
       /\ IF hasE THEN ExponentOk(e) ELSE TRUE
    THEN [ok |-> TRUE,
          val |-> NearestF64(neg, StripZeros(Flatten(parts)),
                             ExponentVal(e) - (IF Len(parts) = 2 THEN Len(parts[2]) ELSE 0))]
    ELSE [ok |-> FALSE, val |-> NaN]

\* the number of a sign and a text: the text before the first 'e' or 'E' is
\* the mantissa, the text after it the exponent
FloatNumber(neg, body, e) ==
    IF e = 0 THEN FloatFromParts(neg, Split(body, "."), FALSE, <<>>)
    ELSE FloatFromParts(neg, Split(SubSeq(body, 1, e - 1), "."), TRUE,
                        SubSeq(body, e + 1, Len(body)))

\* the special values: nan, inf, infinity in any case, with '-' only
FloatWord(neg, word) ==
    IF word = <<"n", "a", "n">> THEN [ok |-> TRUE, val |-> NaNWith(neg, 0)]
    ELSE IF word \in {<<"i", "n", "f">>, <<"i", "n", "f", "i", "n", "i", "t",
          "y">>} THEN [ok |-> TRUE, val |-> Inf(neg)]
    ELSE [ok |-> FALSE, val |-> NaN]

\* a number when the text is one, a special value otherwise
FloatOf(text, neg, body, number) ==
    IF number.ok THEN number ELSE FloatWord(neg, Lower(IF neg THEN body ELSE text))

\* fast_float::parse: [+-] digits [. digits] [e [+-] digits] with a digit in
\* the mantissa, or [-] nan | inf | infinity; the whole text
FastFloatParse(text) ==
    IF Len(text) > 0 /\ text[1] \in {"+", "-"}
    THEN FloatOf(text, text[1] = "-", Tail(text),
                 FloatNumber(text[1] = "-", Tail(text),
                             Find(Tail(text), LAMBDA c : c \in {"e", "E"})))
    ELSE FloatOf(text, FALSE, text,
                 FloatNumber(FALSE, text, Find(text, LAMBDA c : c \in {"e", "E"})))

\* Iterator::next of the tokens of a line: the k-th token, None past the end
Nth(entries, k) == IF k <= Len(entries) THEN Some(entries[k]) ELSE None

\* the value of a conversion, ConversionError with the text when it failed
Converted(text, r) == IF r.ok THEN Ok(r.val) ELSE Err(ConversionError(text))

\* parse::<i32>(name, text)
parse(name, text) ==
    IF ~text.some THEN Err(MissingEntry(name)) ELSE Converted(text.val, FromStrI32(text.val))

\* parse_f64(name, text)
parse_f64(name, text) ==
    IF ~text.some THEN Err(MissingEntry(name))
    ELSE Converted(text.val, FastFloatParse(text.val))

RECURSIVE parse_fields(_, _, _, _)
\* the fields of one line, parsed in their order: the values, or the error of
\* the first field that fails (parse(..)? for each field in turn)
parse_fields(entries, fields, k, vals) ==
    LET r == IF fields[k].float THEN parse_f64(fields[k].name, Nth(entries, k))
             ELSE parse(fields[k].name, Nth(entries, k))
    IN  IF k > Len(fields) THEN Ok(vals)
        ELSE IF ~r.ok THEN r
        ELSE parse_fields(entries, fields, k + 1, Append(vals, r.val))

(***************************************************************************)
(* Parsing functions.  A function that reads from the stream returns its   *)
(* result together with the rest of the stream.                            *)
(***************************************************************************)
At(r, rest) == [ok |-> r.ok, val |-> r.val, err |-> r.err, rest |-> rest]

SupportedVersions == {<<"1", ".", "0">>, <<"2", ".", "0">>, <<"3", ".", "0">>}

\* parse_version with the version match after the check of the closing '>'
parse_version_checks_line_first(s) ==
    LET first == read_line(s)
        line_entries == Split(Trim(first.line), "\"")
    IN  At(IF line_entries[1] # LHEF_TAG_OPEN THEN Err(BadFirstLine(first.line))
           ELSE IF Len(line_entries) < 2 THEN Err(MissingVersion)
           ELSE IF Len(line_entries) < 3 \/ line_entries[3] # <<">">>
               THEN Err(BadFirstLine(first.line))
           ELSE IF line_entries[2] \notin SupportedVersions
               THEN Err(UnsupportedVersion(line_entries[2]))
           ELSE Ok(line_entries[2]),
           first.rest)

\* parse_version
parse_version(s) ==
    LET first == read_line(s)
        line_entries == Split(Trim(first.line), "\"")
    IN  At(IF line_entries[1] # LHEF_TAG_OPEN THEN Err(BadFirstLine(first.line))
           ELSE IF Len(line_entries) < 2 THEN Err(MissingVersion)
           ELSE IF line_entries[2] \notin SupportedVersions
               THEN Err(UnsupportedVersion(line_entries[2]))
           ELSE IF Len(line_entries) < 3 \/ line_entries[3] # <<">">>
               THEN Err(BadFirstLine(first.line))
           ELSE Ok(line_entries[2]),
           first.rest)

RECURSIVE read_lines_until(_, _, _)
\* read_lines_until: append lines to header until the last one, trimmed, is header_end
read_lines_until(s, header, header_end) ==
    LET next == read_line(s)
        text == header \o next.line
    IN  IF next.line = <<>> THEN At(Err(EndOfFile(<<"h", "e", "a", "d", "e", "r">>)), next.rest)
        ELSE IF Trim(LastLine(text)) = header_end THEN At(Ok(text), next.rest)
        ELSE read_lines_until(next.rest, text, header_end)

\* the <header> blocks of the model's inputs: empty, with text, with an unclosed child
XmlEmptyHeader == HEADER_START \o <<">", "\n">> \o HEADER_END \o NL
XmlTextHeader == HEADER_START \o <<">", "\n", "x", "\n">> \o HEADER_END \o NL
XmlBrokenHeader == HEADER_START \o <<">", "\n", "<", "c", ">", "\n">> \o HEADER_END \o NL
\* the block with text, with whitespace around its opening and closing lines
XmlPaddedHeader ==
    SP \o HEADER_START \o <<">", " ", "\n", "x", "\n", " ">> \o HEADER_END \o SP \o NL
\* that block as Writer::xml_header writes it after it was read
XmlRewrittenHeader ==
    HEADER_START \o <<">", "\n", " ", "\n", "x", "\n", " ", "\n">> \o HEADER_END \o NL

\* XmlTree::parse (the xmltree crate) on the <header> blocks of the model's
\* inputs: the element with its character data, whitespace between tags
\* dropped; an error for a document that is not well-formed
XmlTree_parse(text) ==
    IF text = XmlEmptyHeader THEN Ok(XmlTree(HeaderName, EmptyAttr, <<>>, None))
    ELSE IF text = XmlTextHeader
        THEN Ok(XmlTree(HeaderName, EmptyAttr, <<>>, Some(<<"\n", "x", "\n">>)))
    ELSE IF text = XmlPaddedHeader
        THEN Ok(XmlTree(HeaderName, EmptyAttr, <<>>, Some(<<" ", "\n", "x", "\n", " ">>)))
    ELSE IF text = XmlRewrittenHeader
        THEN Ok(XmlTree(HeaderName, EmptyAttr, <<>>,
                        Some(<<"\n", " ", "\n", "x", "\n", " ", "\n">>)))
    ELSE Err(XmlParseError)

RECURSIVE parse_header_loop_takes_any_line(_, _, _)
\* the loop of parse_header that takes any line it cannot classify, the end
\* of the input excepted, as the opening line of <init>
parse_header_loop_takes_any_line(s, header, xml_header) ==
    LET next == read_line(s)
        header_text == next.line
        start == TrimStart(header_text)
        comment == read_lines_until(next.rest, header_text, COMMENT_END)
        block == read_lines_until(next.rest, header_text, HEADER_END)
        tree == XmlTree_parse(block.val)
    IN  IF StartsWith(start, COMMENT_START)
        THEN IF Trim(header_text) # COMMENT_START
             THEN At(Err(BadHeaderStart(header_text)), next.rest)
             ELSE IF ~comment.ok THEN comment
             ELSE parse_header_loop_takes_any_line(comment.rest, comment.val, xml_header)
        ELSE IF StartsWith(start, HEADER_START)
        THEN IF ~block.ok THEN block
             ELSE IF ~tree.ok THEN At(tree, block.rest)
             ELSE parse_header_loop_takes_any_line(block.rest, header, Some(tree.val))
        ELSE IF header_text # <<>>
        THEN At(Ok([header |-> header, xml_header |-> xml_header,
                    init_start |-> header_text]), next.rest)
        ELSE At(Err(BadHeaderStart(header_text)), next.rest)

RECURSIVE parse_header_loop(_, _, _)
\* the loop of parse_header, with the comment and the tree found so far
parse_header_loop(s, header, xml_header) ==
    LET next == read_line(s)
        header_text == next.line
        start == TrimStart(header_text)
        comment == read_lines_until(next.rest, header_text, COMMENT_END)
        block == read_lines_until(next.rest, header_text, HEADER_END)
        tree == XmlTree_parse(block.val)
    IN  IF StartsWith(start, COMMENT_START)
        THEN IF Trim(header_text) # COMMENT_START
             THEN At(Err(BadHeaderStart(header_text)), next.rest)
             ELSE IF ~comment.ok THEN comment
             ELSE parse_header_loop(comment.rest, comment.val, xml_header)
        ELSE IF StartsWith(start, HEADER_START)
        THEN IF ~block.ok THEN block
             ELSE IF ~tree.ok THEN At(tree, block.rest)
             ELSE parse_header_loop(block.rest, header, Some(tree.val))
        ELSE IF StartsWith(start, INIT_START)
        THEN At(Ok([header |-> header, xml_header |-> xml_header,
                    init_start |-> header_text]), next.rest)
        ELSE At(Err(BadHeaderStart(header_text)), next.rest)

\* parse_header
parse_header(s) == parse_header_loop(s, <<>>, None)

\* extract_xml_attr_str: what follows the tag name, up to the closing '>'
extract_xml_attr_str(xml_tag) ==
    LET tag == Trim(xml_tag)
        inner == SubSeq(tag, 1, Len(tag) - 1)
        first_attr == Find(inner, IsWs)
    IN  IF ~EndsWith(tag, ">") THEN Err(BadXmlTag(xml_tag))
        ELSE IF first_attr = 0 THEN Ok(<<>>)
        ELSE Ok(TrimStart(SubSeq(inner, first_attr + 1, Len(inner))))

\* next_attr that ends a value at the first quote of either kind
next_attr_closes_at_any_quote(attr_str) ==
    LET name_end == Find(attr_str, LAMBDA c : IsWs(c) \/ c = "=")
        name == SubSeq(attr_str, 1, name_end - 1)
        rem1 == TrimStart(SubSeq(attr_str, Len(name) + 1, Len(attr_str)))
        rem2 == TrimStart(Tail(rem1))
        quote == rem2[1]
        rem3 == Tail(rem2)
        value_end == Find(rem3, LAMBDA c : c \in {"'", "\""})
        value == SubSeq(rem3, 1, value_end - 1)
    IN  IF name_end = 0 THEN Ok([attr |-> None, rem |-> attr_str])
        ELSE IF ~StartsWithChar(rem1, "=") THEN Err(BadXmlTag(attr_str))
        ELSE IF rem2 = <<>> \/ quote \notin {"'", "\""} THEN Err(BadXmlTag(attr_str))
        ELSE IF value_end = 0 THEN Err(BadXmlTag(attr_str))
        ELSE Ok([attr |-> Some([name |-> name, value |-> value]),
                 rem |-> TrimStart(SubSeq(rem3, Len(value) + 2, Len(rem3)))])

\* next_attr that takes a value in double quotes only
next_attr_double_quotes_only(attr_str) ==
    LET name_end == Find(attr_str, LAMBDA c : IsWs(c) \/ c = "=")
        name == SubSeq(attr_str, 1, name_end - 1)
        rem1 == TrimStart(SubSeq(attr_str, Len(name) + 1, Len(attr_str)))
        rem2 == TrimStart(Tail(rem1))
        quote == rem2[1]
        rem3 == Tail(rem2)
        value_end == Find(rem3, LAMBDA c : c = quote)
        value == SubSeq(rem3, 1, value_end - 1)
    IN  IF name_end = 0 THEN Ok([attr |-> None, rem |-> attr_str])
        ELSE IF ~StartsWithChar(rem1, "=") THEN Err(BadXmlTag(attr_str))
        ELSE IF rem2 = <<>> \/ quote # "\"" THEN Err(BadXmlTag(attr_str))
        ELSE IF value_end = 0 THEN Err(BadXmlTag(attr_str))
        ELSE Ok([attr |-> Some([name |-> name, value |-> value]),
                 rem |-> TrimStart(SubSeq(rem3, Len(value) + 2, Len(rem3)))])

\* next_attr: the first name="value" of attr_str and what follows it;
\* None when no whitespace and no '=' is left
next_attr(attr_str) ==
    LET name_end == Find(attr_str, LAMBDA c : IsWs(c) \/ c = "=")
        name == SubSeq(attr_str, 1, name_end - 1)
        rem1 == TrimStart(SubSeq(attr_str, Len(name) + 1, Len(attr_str)))
        rem2 == TrimStart(Tail(rem1))
        quote == rem2[1]
        rem3 == Tail(rem2)
        value_end == Find(rem3, LAMBDA c : c = quote)
        value == SubSeq(rem3, 1, value_end - 1)
    IN  IF name_end = 0 THEN Ok([attr |-> None, rem |-> attr_str])
        ELSE IF ~StartsWithChar(rem1, "=") THEN Err(BadXmlTag(attr_str))
        ELSE IF rem2 = <<>> \/ quote \notin {"'", "\""} THEN Err(BadXmlTag(attr_str))
        ELSE IF value_end = 0 THEN Err(BadXmlTag(attr_str))
        ELSE Ok([attr |-> Some([name |-> name, value |-> value]),
                 rem |-> TrimStart(SubSeq(rem3, Len(value) + 2, Len(rem3)))])

\* HashMap::insert
Insert(m, name, value) ==
    [k \in DOMAIN m \cup {name} |-> IF k = name THEN value ELSE m[k]]

\* a loop of extract_xml_attr that returns after the first attribute
extract_xml_attr_loop_first_only(attr_str, attr) ==
    LET parsed == next_attr(attr_str)
    IN  IF ~parsed.ok THEN parsed
        ELSE IF ~parsed.val.attr.some THEN Ok(attr)
        ELSE Ok(Insert(attr, parsed.val.attr.val.name, parsed.val.attr.val.value))

RECURSIVE extract_xml_attr_loop(_, _)
\* the loop of extract_xml_attr
extract_xml_attr_loop(attr_str, attr) ==
    LET parsed == next_attr(attr_str)
    IN  IF ~parsed.ok THEN parsed
        ELSE IF ~parsed.val.attr.some THEN Ok(attr)
        ELSE extract_xml_attr_loop(parsed.val.rem,
                 Insert(attr, parsed.val.attr.val.name, parsed.val.attr.val.value))

\* extract_xml_attr
extract_xml_attr(xml_tag) ==
    LET attr_str == extract_xml_attr_str(xml_tag)
    IN  IF ~attr_str.ok THEN attr_str ELSE extract_xml_attr_loop(attr_str.val, EmptyAttr)

\* the name of an indexed field, as format!("XSECUP({})", i + 1) builds it
Indexed(name, i) == name \o <<"(">> \o FmtInt(i) \o <<")">>
\* the name of a doubly indexed field with the index of the loop, which starts at 0
Indexed2_from_zero(name, i, j) ==
    name \o <<"(">> \o FmtInt(i - 1) \o <<",", " ">> \o FmtInt(j) \o <<")">>
\* the name of a doubly indexed field, as format!("PUP({}, 2)", i + 1) builds it
Indexed2(name, i, j) == name \o <<"(">> \o FmtInt(i) \o <<",", " ">> \o FmtInt(j) \o <<")">>

\* a field of a line: its name in error messages, and whether it is an f64
I32Field(name) == [name |-> name, float |-> FALSE]
F64Field(name) == [name |-> name, float |-> TRUE]

\* the fields of the first line of an <init> block
InitFields ==
    << I32Field(<<"I", "D", "B", "M", "U", "P", "(", "1", ")">>),
       I32Field(<<"I", "D", "B", "M", "U", "P", "(", "2", ")">>),
       F64Field(<<"E", "B", "M", "U", "P", "(", "1", ")">>),
       F64Field(<<"E", "B", "M", "U", "P", "(", "2", ")">>),
       I32Field(<<"P", "D", "F", "G", "U", "P", "(", "1", ")">>),
       I32Field(<<"P", "D", "F", "G", "U", "P", "(", "2", ")">>),
       I32Field(<<"P", "D", "F", "S", "U", "P", "(", "1", ")">>),
       I32Field(<<"P", "D", "F", "S", "U", "P", "(", "2", ")">>),
       I32Field(<<"I", "D", "W", "T", "U", "P">>),
       I32Field(<<"N", "P", "R", "U", "P">>) >>

\* the fields of the line of subprocess i
SubprocessFields(i) ==
    << F64Field(Indexed(<<"X", "S", "E", "C", "U", "P">>, i)),
       F64Field(Indexed(<<"X", "E", "R", "R", "U", "P">>, i)),
       F64Field(Indexed(<<"X", "M", "A", "X", "U", "P">>, i)),
       I32Field(Indexed(<<"L", "P", "R", "U", "P">>, i)) >>

\* the fields of the first line of an <event> block
EventFields ==
    << I32Field(<<"N", "U", "P">>),
       I32Field(<<"I", "D", "R", "U", "P">>),
       F64Field(<<"X", "W", "G", "T", "U", "P">>),
       F64Field(<<"S", "C", "A", "L", "U", "P">>),
       F64Field(<<"A", "Q", "E", "D", "U", "P">>),
       F64Field(<<"A", "Q", "C", "D", "U", "P">>) >>

\* the fields of the line of particle i
ParticleFields(i) ==
    << I32Field(Indexed(<<"I", "D", "U", "P">>, i)),
       I32Field(Indexed(<<"I", "S", "T", "U", "P">>, i)),
       I32Field(Indexed2(<<"M", "O", "T", "H", "U", "P">>, i, 1)),
       I32Field(Indexed2(<<"M", "O", "T", "H", "U", "P">>, i, 2)),
       I32Field(Indexed2(<<"I", "C", "O", "L", "U", "P">>, i, 1)),
       I32Field(Indexed2(<<"I", "C", "O", "L", "U", "P">>, i, 2)),
       F64Field(Indexed2(<<"P", "U", "P">>, i, 1)),
       F64Field(Indexed2(<<"P", "U", "P">>, i, 2)),
       F64Field(Indexed2(<<"P", "U", "P">>, i, 3)),
       F64Field(Indexed2(<<"P", "U", "P">>, i, 4)),
       F64Field(Indexed2(<<"P", "U", "P">>, i, 5)),
       F64Field(Indexed(<<"V", "T", "I", "M", "U", "P">>, i)),
       F64Field(Indexed(<<"S", "P", "I", "N", "U", "P">>, i)) >>

\* one line of the stream, parsed with the tokens of the lines after it at hand
parse_line_borrows(s, fields) ==
    At(parse_fields(SplitWhitespace(s), fields, 1, <<>>), read_line(s).rest)

\* one line of the stream, split at whitespace and parsed as the given fields
parse_line(s, fields) ==
    At(parse_fields(SplitWhitespace(read_line(s).line), fields, 1, <<>>), read_line(s).rest)

RECURSIVE record_lines(_, _, _, _, _)
\* the loops `for i in 0..NPRUP` and `for i in 0..NUP`: one line for each
\* subprocess or particle, up to the first line that fails
record_lines(s, i, count, Fields(_), acc) ==
    LET line == parse_line(s, Fields(i))
    IN  IF i > count THEN At(Ok(acc), s)
        ELSE IF ~line.ok THEN line
        ELSE record_lines(line.rest, i + 1, count, Fields, Append(acc, line.val))

RECURSIVE init_info(_, _)
\* the info loop of parse_init: lines up to the one that is INIT_END, which is dropped
init_info(s, info) ==
    LET next == read_line(s)
    IN  IF next.line = <<>> THEN At(Err(EndOfFile(<<"i", "n", "i", "t">>)), next.rest)
        ELSE IF LastLine(info \o next.line) = INIT_END
            THEN At(Ok(pop_line(info \o next.line)), next.rest)
        ELSE init_info(next.rest, info \o next.line)

\* the HEPRUP of a parsed block without the values of its last subprocess
init_value_drops_last_record(f, NPRUP, records, info, attr) ==
    HEPRUP(<<f[1], f[2]>>, <<f[3], f[4]>>, <<f[5], f[6]>>, <<f[7], f[8]>>, f[9], NPRUP,
           [i \in 1..(NPRUP - 1) |-> records[i][1]], [i \in 1..(NPRUP - 1) |-> records[i][2]],
           [i \in 1..(NPRUP - 1) |-> records[i][3]], [i \in 1..(NPRUP - 1) |-> records[i][4]],
           info, attr)
\* the HEPRUP of a parsed block
init_value(f, NPRUP, records, info, attr) ==
    HEPRUP(<<f[1], f[2]>>, <<f[3], f[4]>>, <<f[5], f[6]>>, <<f[7], f[8]>>, f[9], NPRUP,
           [i \in 1..NPRUP |-> records[i][1]], [i \in 1..NPRUP |-> records[i][2]],
           [i \in 1..NPRUP |-> records[i][3]], [i \in 1..NPRUP |-> records[i][4]],
           info, attr)

\* parse_init, after the info: the attributes of the opening tag
init_with_info(init_open, f, records, info, attr) ==
    IF ~info.ok THEN info
    ELSE IF ~attr.ok THEN At(attr, info.rest)
    ELSE At(Ok(init_value(f, f[10], records, info.val, attr.val)), info.rest)

\* parse_init, after the lines of the subprocesses: the info
init_with_records(init_open, f, records) ==
    IF ~records.ok THEN records
    ELSE init_with_info(init_open, f, records.val, init_info(records.rest, <<>>),
                        extract_xml_attr(init_open))

\* parse_init, after the first line: Vec::with_capacity(NPRUP as usize), which
\* panics with "capacity overflow" for a negative NPRUP, then the subprocesses
init_with_fields(init_open, f) ==
    IF ~f.ok THEN f
    ELSE IF f.val[10] < 0 THEN At(Err(Panic), f.rest)
    ELSE init_with_records(init_open, f.val,
                           record_lines(f.rest, 1, f.val[10], SubprocessFields, <<>>))

\* parse_init
parse_init(init_open, s) == init_with_fields(init_open, parse_line(s, InitFields))

RECURSIVE event_info_names_init(_, _)
\* the info loop of parse_event with the block name of parse_init in its error
event_info_names_init(s, info) ==
    LET next == read_line(s)
    IN  IF next.line = <<>> THEN At(Err(EndOfFile(<<"i", "n", "i", "t">>)), next.rest)
        ELSE IF Trim(LastLine(info \o next.line)) = EVENT_END
            THEN At(Ok(pop_line(info \o next.line)), next.rest)
        ELSE event_info_names_init(next.rest, info \o next.line)

RECURSIVE event_info(_, _)
\* the info loop of parse_event: lines up to the one that, trimmed, is EVENT_END
event_info(s, info) ==
    LET next == read_line(s)
    IN  IF next.line = <<>> THEN At(Err(EndOfFile(<<"e", "v", "e", "n", "t">>)), next.rest)
        ELSE IF Trim(LastLine(info \o next.line)) = EVENT_END
            THEN At(Ok(pop_line(info \o next.line)), next.rest)
        ELSE event_info(next.rest, info \o next.line)

\* the HEPEUP of a parsed block
event_value(f, NUP, records, info, attr) ==
    HEPEUP(NUP, f[2], f[3], f[4], f[5], f[6],
           [i \in 1..NUP |-> records[i][1]], [i \in 1..NUP |-> records[i][2]],
           [i \in 1..NUP |-> <<records[i][3], records[i][4]>>],
           [i \in 1..NUP |-> <<records[i][5], records[i][6]>>],
           [i \in 1..NUP |-> SubSeq(records[i], 7, 11)],
           [i \in 1..NUP |-> records[i][12]], [i \in 1..NUP |-> records[i][13]],
           info, attr)

\* parse_event that reports a bad opening tag before looking at the info
event_with_info_tag_first(event_open, f, records, info, attr) ==
    IF ~attr.ok THEN At(attr, info.rest)
    ELSE IF ~info.ok THEN info
    ELSE At(Ok(event_value(f, f[1], records, info.val, attr.val)), info.rest)

\* parse_event, after the info: the attributes of the opening tag
event_with_info(event_open, f, records, info, attr) ==
    IF ~info.ok THEN info
    ELSE IF ~attr.ok THEN At(attr, info.rest)
    ELSE At(Ok(event_value(f, f[1], records, info.val, attr.val)), info.rest)

\* parse_event, after the lines of the particles: the info
event_with_records(event_open, f, records) ==
    IF ~records.ok THEN records
    ELSE event_with_info(event_open, f, records.val, event_info(records.rest, <<>>),
                         extract_xml_attr(event_open))

\* parse_event, after the first line: Vec::with_capacity(NUP as usize), which
\* panics with "capacity overflow" for a negative NUP, then the particles
event_with_fields(event_open, f) ==
    IF ~f.ok THEN f
    ELSE IF f.val[1] < 0 THEN At(Err(Panic), f.rest)
    ELSE event_with_records(event_open, f.val,
                            record_lines(f.rest, 1, f.val[1], ParticleFields, <<>>))

\* parse_event
parse_event(event_open, s) == event_with_fields(event_open, parse_line(s, EventFields))

\* Reader::new, after parse_init: the Reader
new_with_heprup(version, header, heprup) ==
    IF ~heprup.ok THEN heprup
    ELSE At(Ok([version |-> version, header |-> header.header,
                xml_header |-> header.xml_header, heprup |-> heprup.val]),
            heprup.rest)

\* Reader::new, after parse_header: parse_init on the opening line of <init>
new_with_header(version, header) ==
    IF ~header.ok THEN header
    ELSE new_with_heprup(version, header.val, parse_init(header.val.init_start, header.rest))

\* Reader::new that reads to the end of the stream when the first line fails
new_with_version_reads_on(version) ==
    IF ~version.ok THEN At(version, <<>>)
    ELSE new_with_header(version.val, parse_header(version.rest))

\* Reader::new, after parse_version: parse_header
new_with_version(version) ==
    IF ~version.ok THEN version ELSE new_with_header(version.val, parse_header(version.rest))

\* Reader::new: the version, the headers and the run information, in this order
Reader_new(s) == new_with_version(parse_version(s))

\* what hepeup returns for an event block
Event(event) == IF event.ok THEN At(Ok(Some(event.val)), event.rest) ELSE event

\* Reader::hepeup that gives None for every line that does not start an event
Reader_hepeup_none_for_any_line(s) ==
    LET next == read_line(s)
    IN  IF StartsWith(next.line, EVENT_START) THEN Event(parse_event(next.line, next.rest))
        ELSE At(Ok(None), next.rest)

\* Reader::hepeup that gives None at the end of the input only
Reader_hepeup_ends_at_eof(s) ==
    LET next == read_line(s)
    IN  IF StartsWith(next.line, EVENT_START) THEN Event(parse_event(next.line, next.rest))
        ELSE IF next.line = <<>> THEN At(Ok(None), next.rest)
        ELSE At(Err(BadEventStart(next.line)), next.rest)

\* Reader::hepeup
Reader_hepeup(s) ==
    LET next == read_line(s)
    IN  IF StartsWith(next.line, EVENT_START) THEN Event(parse_event(next.line, next.rest))
        ELSE IF Trim(next.line) = LHEF_LAST_LINE THEN At(Ok(None), next.rest)
        ELSE At(Err(BadEventStart(next.line)), next.rest)

(***************************************************************************)
(* The streams given to the Reader.  A stream is a first line, header      *)
(* blocks, a run-info block, up to MaxEvents blocks where events are       *)
(* expected, and an end.  Each block is its text and the value that        *)
(* stands in it.                                                           *)
(***************************************************************************)
\* event blocks, or lines in their place, of one stream
MaxEvents == 2
\* hepeup calls made on one reader: all the events, the end, and one call more
MaxReads == MaxEvents + 2

FirstLine10 ==
    [text |-> LHEF_TAG_OPEN \o <<"\"", "1", ".", "0", "\"", ">", "\n">>, version |-> Some(<<"1",
          ".", "0">>)]
FirstLine30Padded ==
    [text |-> <<" ">> \o LHEF_TAG_OPEN \o <<"\"", "3", ".", "0", "\"", ">", " ", "\n">>,
          version |-> Some(<<"3", ".", "0">>)]
FirstLine40 ==
    [text |-> LHEF_TAG_OPEN \o <<"\"", "4", ".", "0", "\"", ">", "\n">>, version |-> Some(<<"4",
          ".", "0">>)]
FirstLine40Junk ==
    [text |-> LHEF_TAG_OPEN \o <<"\"", "4", ".", "0", "\"", "j", "u", "n", "k", "\n">>,
          version |-> Some(<<"4", ".", "0">>)]
FirstLine10Junk ==
    [text |-> LHEF_TAG_OPEN \o <<"\"", "1", ".", "0", "\"", "j", "u", "n", "k", "\n">>,
          version |-> Some(<<"1", ".", "0">>)]
FirstLineNoAttribute == [text |-> <<"<", "L", "e", "s", "H", "o", "u", "c", "h", "e", "s", "E",
      "v", "e", "n", "t", "s", ">", "\n">>, version |-> None]
FirstLineNoQuote == [text |-> LHEF_TAG_OPEN \o NL, version |-> None]

GoodFirstLines == {FirstLine10, FirstLine30Padded}
BadFirstLines ==
    {FirstLine40, FirstLine40Junk, FirstLine10Junk, FirstLineNoAttribute, FirstLineNoQuote}

NoHeader == [text |-> <<>>, comment |-> <<>>, xml |-> FALSE]
CommentHeader == [text |-> <<"<", "!", "-", "-", "\n", "c", "\n", "-", "-", ">", "\n">>,
      comment |-> <<"c", "\n">>, xml |-> FALSE]
TextHeader == [text |-> XmlTextHeader, comment |-> <<>>, xml |-> TRUE]
HeaderBlocks == {NoHeader, CommentHeader, TextHeader}

InitOne ==
    [text |-> <<"<", "i", "n", "i", "t", ">", "\n", "2", "2", "1", "2", " ", "-", "1", "1", " ",
          "7", "0", "0", "0", " ", "0", ".", "5", " ", "0", " ", "0", " ", "2", "3", "0", " ",
          "2", "3", "0", " ", "2", " ", "1", "\n", "1", ".", "5", "e", "2", "0", " ", "0", ".",
          "5", " ", "-", "2", ".", "5", " ", "1", "\n", "<", "/", "i", "n", "i", "t", ">",
          "\n">>,
     value |-> HEPRUP(<<2212, -11>>, <<F7000, FHalf>>, <<0, 0>>, <<230, 230>>, 2, 1,
                      <<FBig>>, <<FHalf>>, <<FNeg>>, <<1>>, <<>>, EmptyAttr)]
InitNone ==
    [text |-> <<"<", "i", "n", "i", "t", " ", "a", "=", "\"", "v", "\"", ">", "\n", "1", " ",
          "1", " ", "0", " ", "0", " ", "0", " ", "0", " ", "0", " ", "0", " ", "3", " ", "0",
          "\n", "i", "\n", "<", "/", "i", "n", "i", "t", ">", "\n">>,
     value |-> HEPRUP(<<1, 1>>, <<FZero, FZero>>, <<0, 0>>, <<0, 0>>, 3, 0,
                      <<>>, <<>>, <<>>, <<>>, <<"i", "\n">>, OneAttr)]
InitBlocks == {InitOne, InitNone}

EventOne ==
    [text |-> <<"<", "e", "v", "e", "n", "t", ">", "\n", "1", " ", "1", " ", "1", ".", "5", "e",
          "2", "0", " ", "7", "0", "0", "0", " ", "0", ".", "5", " ", "1", ".", "2", "e", "-",
          "5", "\n">>
              \o <<"2", "1", " ", "-", "1", " ", "0", " ", "0", " ", "5", "0", "1", " ", "0",
                    " ", "0", " ", "0", " ", "-", "2", ".", "5", " ", "0", ".", "5", " ", "0",
                    " ", "0", " ", "-", "1", "\n", "<", "/", "e", "v", "e", "n", "t", ">",
                    "\n">>,
     event |-> TRUE,
     value |-> HEPEUP(1, 1, FBig, F7000, FHalf, Fin(FALSE, <<1, 2>>, -6),
                      <<21>>, <<-1>>, <<<<0, 0>>>>, <<<<501, 0>>>>,
                      <<<<FZero, FZero, FNeg, FHalf, FZero>>>>, <<FZero>>,
                      <<Fin(TRUE, <<1>>, 0)>>, <<>>, EmptyAttr)]
EventNone ==
    [text |-> <<"<", "e", "v", "e", "n", "t", " ", "b", "=", "'", "'", ">", "\n", "0", " ", "2",
          " ", "0", ".", "5", " ", "0", ".", "5", " ", "0", ".", "5", " ", "0", ".", "5", "\n",
          "#", "\n", "<", "/", "e", "v", "e", "n", "t", ">", "\n">>,
     event |-> TRUE,
     value |-> HEPEUP(0, 2, FHalf, FHalf, FHalf, FHalf,
                      <<>>, <<>>, <<>>, <<>>, <<>>, <<>>, <<>>, <<"#", "\n">>,
                      [k \in {<<"b">>} |-> <<>>])]
\* a line that starts no event and is not the closing tag
JunkLine == [text |-> <<"j", "u", "n", "k", "\n">>, event |-> FALSE, value |-> EventNone.value]
EventBlocks == {EventOne, EventNone, JunkLine}

ClosingTag == [text |-> LHEF_LAST_LINE \o NL, closed |-> TRUE]
NoClosingTag == [text |-> <<>>, closed |-> FALSE]
Ends == {ClosingTag, NoClosingTag}

(***************************************************************************)
(* Streams with one block that is not as the format lays it out: lines     *)
(* where a header or <init> is expected that open no block, blocks that    *)
(* are never closed, counts below zero, lines with a token too few or a    *)
(* token that is no number.  The rest of such a stream is well-formed.     *)
(***************************************************************************)
\* lines that open neither a comment, a <header> nor <init>
JunkHeader == [text |-> <<"j", "u", "n", "k", "\n">>, comment |-> <<>>, xml |-> FALSE]
BlankHeader == [text |-> <<"\n">>, comment |-> <<>>, xml |-> FALSE]
UnclassifiedHeaders == {JunkHeader, BlankHeader}
\* a comment block followed by such a line
CommentJunkHeader == [text |-> CommentHeader.text \o JunkHeader.text, comment |-> <<"c", "\n">>,
      xml |-> FALSE]
\* a line that opens a comment and carries text
CommentTextHeader == [text |-> <<"<", "!", "-", "-", " ", "c", "\n">>, comment |-> <<>>,
      xml |-> FALSE]
\* a comment block whose delimiter lines carry whitespace
PaddedCommentHeader == [text |-> <<" ", "<", "!", "-", "-", " ", "\n", " ", "c", "\n", " ", "-",
      "-", ">", " ", "\n">>, comment |-> <<" ", "c", "\n">>, xml |-> FALSE]
\* blocks without their closing line, and a <header> that is no XML document
UnclosedComment == [text |-> <<"<", "!", "-", "-", "\n", "c", "\n">>, comment |-> <<>>,
      xml |-> FALSE]
UnclosedHeader == [text |-> <<"<", "h", "e", "a", "d", "e", "r", ">", "\n", "x", "\n">>,
      comment |-> <<>>, xml |-> TRUE]
BrokenHeader == [text |-> XmlBrokenHeader, comment |-> <<>>, xml |-> TRUE]
UnclosedHeaders == {UnclosedComment, UnclosedHeader}
EdgeHeaders ==
    UnclassifiedHeaders \cup UnclosedHeaders
    \cup {CommentJunkHeader, CommentTextHeader, PaddedCommentHeader, BrokenHeader}

\* no <init> block at all
NoInit == [text |-> <<>>, value |-> InitOne.value]
\* NPRUP = -1
InitNegative == [text |-> <<"<", "i", "n", "i", "t", ">", "\n", "2", "2", "1", "2", " ", "-",
      "1", "1", " ", "7", "0", "0", "0", " ", "0", ".", "5", " ", "0", " ", "0", " ", "2", "3",
      "0", " ", "2", "3", "0", " ", "2", " ", "-", "1", "\n", "<", "/", "i", "n", "i", "t", ">",
      "\n">>, value |-> InitOne.value]
\* the block of InitOne without its closing line
InitUnclosed == [text |-> <<"<", "i", "n", "i", "t", ">", "\n", "2", "2", "1", "2", " ", "-",
      "1", "1", " ", "7", "0", "0", "0", " ", "0", ".", "5", " ", "0", " ", "0", " ", "2", "3",
      "0", " ", "2", "3", "0", " ", "2", " ", "1", "\n", "1", ".", "5", "e", "2", "0", " ", "0",
      ".", "5", " ", "-", "2", ".", "5", " ", "1", "\n">>, value |-> InitOne.value]
\* a first line without NPRUP
InitMissingEntry == [text |-> <<"<", "i", "n", "i", "t", ">", "\n", "2", "2", "1", "2", " ",
      "-", "1", "1", " ", "7", "0", "0", "0", " ", "0", ".", "5", " ", "0", " ", "0", " ", "2",
      "3", "0", " ", "2", "3", "0", " ", "2", "\n", "<", "/", "i", "n", "i", "t", ">", "\n">>,
      value |-> InitOne.value]
\* a subprocess line without LPRUP
InitShortRecord == [text |-> <<"<", "i", "n", "i", "t", ">", "\n", "2", "2", "1", "2", " ", "-",
      "1", "1", " ", "7", "0", "0", "0", " ", "0", ".", "5", " ", "0", " ", "0", " ", "2", "3",
      "0", " ", "2", "3", "0", " ", "2", " ", "1", "\n", "1", ".", "5", "e", "2", "0", " ", "0",
      ".", "5", " ", "-", "2", ".", "5", "\n", "<", "/", "i", "n", "i", "t", ">", "\n">>,
      value |-> InitOne.value]
\* EBMUP(1) is no number
InitBadToken == [text |-> <<"<", "i", "n", "i", "t", ">", "\n", "2", "2", "1", "2", " ", "-",
      "1", "1", " ", "x", " ", "0", ".", "5", " ", "0", " ", "0", " ", "2", "3", "0", " ", "2",
      "3", "0", " ", "2", " ", "1", "\n", "1", ".", "5", "e", "2", "0", " ", "0", ".", "5", " ",
      "-", "2", ".", "5", " ", "1", "\n", "<", "/", "i", "n", "i", "t", ">", "\n">>,
      value |-> InitOne.value]
\* NPRUP = 2 with one subprocess line, and NPRUP = 0 with one
InitCountHigh == [text |-> <<"<", "i", "n", "i", "t", ">", "\n", "2", "2", "1", "2", " ", "-",
      "1", "1", " ", "7", "0", "0", "0", " ", "0", ".", "5", " ", "0", " ", "0", " ", "2", "3",
      "0", " ", "2", "3", "0", " ", "2", " ", "2", "\n", "1", ".", "5", "e", "2", "0", " ", "0",
      ".", "5", " ", "-", "2", ".", "5", " ", "1", "\n", "<", "/", "i", "n", "i", "t", ">",
      "\n">>, value |-> InitOne.value]
InitCountLow ==
    [text |-> <<"<", "i", "n", "i", "t", ">", "\n", "2", "2", "1", "2", " ", "-", "1", "1", " ",
          "7", "0", "0", "0", " ", "0", ".", "5", " ", "0", " ", "0", " ", "2", "3", "0", " ",
          "2", "3", "0", " ", "2", " ", "0", "\n", "1", ".", "5", "e", "2", "0", " ", "0", ".",
          "5", " ", "-", "2", ".", "5", " ", "1", "\n", "<", "/", "i", "n", "i", "t", ">",
          "\n">>,
     value |-> HEPRUP(<<2212, -11>>, <<F7000, FHalf>>, <<0, 0>>, <<230, 230>>, 2, 0,
                      <<>>, <<>>, <<>>, <<>>, <<"1", ".", "5", "e", "2", "0", " ", "0", ".",
                            "5", " ", "-", "2", ".", "5", " ", "1", "\n">>, EmptyAttr)]
EdgeInits ==
    {InitNegative, InitUnclosed, InitMissingEntry, InitShortRecord, InitBadToken,
     InitCountHigh, InitCountLow}

\* NUP = -1
EventNegative == [text |-> <<"<", "e", "v", "e", "n", "t", ">", "\n", "-", "1", " ", "1", " ",
      "0", ".", "5", " ", "0", ".", "5", " ", "0", ".", "5", " ", "0", ".", "5", "\n", "<", "/",
      "e", "v", "e", "n", "t", ">", "\n">>, event |-> FALSE, value |-> EventNone.value]
\* the block of EventNone without its closing line
EventUnclosed == [text |-> <<"<", "e", "v", "e", "n", "t", ">", "\n", "0", " ", "2", " ", "0",
      ".", "5", " ", "0", ".", "5", " ", "0", ".", "5", " ", "0", ".", "5", "\n", "#", "\n">>,
      event |-> FALSE, value |-> EventNone.value]
\* a first line without AQCDUP
EventMissingEntry == [text |-> <<"<", "e", "v", "e", "n", "t", ">", "\n", "0", " ", "2", " ",
      "0", ".", "5", " ", "0", ".", "5", " ", "0", ".", "5", "\n", "<", "/", "e", "v", "e", "n",
      "t", ">", "\n">>, event |-> FALSE, value |-> EventNone.value]
\* two particles, the line of the second ends after PUP(2, 2)
EventShortRecord == [text |-> <<"<", "e", "v", "e", "n", "t", ">", "\n", "2", " ", "1", " ",
      "0", ".", "5", " ", "0", ".", "5", " ", "0", ".", "5", " ", "0", ".", "5", "\n", "2", "1",
      " ", "-", "1", " ", "0", " ", "0", " ", "5", "0", "1", " ", "0", " ", "0", " ", "0", " ",
      "-", "2", ".", "5", " ", "0", ".", "5", " ", "0", " ", "0", " ", "-", "1", "\n", "2", "1",
      " ", "-", "1", " ", "0", " ", "0", " ", "5", "0", "1", " ", "0", " ", "0", " ", "0", "\n",
      "<", "/", "e", "v", "e", "n", "t", ">", "\n">>, event |-> FALSE,
      value |-> EventNone.value]
\* PUP(1, 3) is no number
EventBadToken == [text |-> <<"<", "e", "v", "e", "n", "t", ">", "\n", "1", " ", "1", " ", "0",
      ".", "5", " ", "0", ".", "5", " ", "0", ".", "5", " ", "0", ".", "5", "\n", "2", "1", " ",
      "-", "1", " ", "0", " ", "0", " ", "5", "0", "1", " ", "0", " ", "0", " ", "0", " ", "1",
      ".", "5", "x", " ", "0", ".", "5", " ", "0", " ", "0", " ", "-", "1", "\n", "<", "/", "e",
      "v", "e", "n", "t", ">", "\n">>, event |-> FALSE, value |-> EventNone.value]
\* IDRUP is no i32
EventBadInt == [text |-> <<"<", "e", "v", "e", "n", "t", ">", "\n", "1", " ", "1", ".", "0",
      " ", "0", ".", "5", " ", "0", ".", "5", " ", "0", ".", "5", " ", "0", ".", "5", "\n", "2",
      "1", " ", "-", "1", " ", "0", " ", "0", " ", "5", "0", "1", " ", "0", " ", "0", " ", "0",
      " ", "-", "2", ".", "5", " ", "0", ".", "5", " ", "0", " ", "0", " ", "-", "1", "\n", "<",
      "/", "e", "v", "e", "n", "t", ">", "\n">>, event |-> FALSE, value |-> EventNone.value]
\* NUP = 2 with one particle line, and NUP = 0 with one
EventCountHigh == [text |-> <<"<", "e", "v", "e", "n", "t", ">", "\n", "2", " ", "1", " ", "0",
      ".", "5", " ", "0", ".", "5", " ", "0", ".", "5", " ", "0", ".", "5", "\n", "2", "1", " ",
      "-", "1", " ", "0", " ", "0", " ", "5", "0", "1", " ", "0", " ", "0", " ", "0", " ", "-",
      "2", ".", "5", " ", "0", ".", "5", " ", "0", " ", "0", " ", "-", "1", "\n", "<", "/", "e",
      "v", "e", "n", "t", ">", "\n">>, event |-> FALSE, value |-> EventNone.value]
EventCountLow ==
    [text |-> <<"<", "e", "v", "e", "n", "t", ">", "\n", "0", " ", "1", " ", "0", ".", "5", " ",
          "0", ".", "5", " ", "0", ".", "5", " ", "0", ".", "5", "\n", "2", "1", " ", "-", "1",
          " ", "0", " ", "0", " ", "5", "0", "1", " ", "0", " ", "0", " ", "0", " ", "-", "2",
          ".", "5", " ", "0", ".", "5", " ", "0", " ", "0", " ", "-", "1", "\n", "<", "/", "e",
          "v", "e", "n", "t", ">", "\n">>,
     event |-> TRUE,
     value |-> HEPEUP(0, 1, FHalf, FHalf, FHalf, FHalf,
                      <<>>, <<>>, <<>>, <<>>, <<>>, <<>>, <<>>,
                      <<"2", "1", " ", "-", "1", " ", "0", " ", "0", " ", "5", "0", "1", " ",
                            "0", " ", "0", " ", "0", " ", "-", "2", ".", "5", " ", "0", ".",
                            "5", " ", "0", " ", "0", " ", "-", "1", "\n">>, EmptyAttr)]
EdgeEvents ==
    {EventNegative, EventUnclosed, EventMissingEntry, EventShortRecord, EventBadToken,
     EventBadInt, EventCountHigh, EventCountLow}

(***************************************************************************)
(* Streams whose blocks are as the format lays them out but for            *)
(* whitespace around a line that opens or closes a block, and streams      *)
(* whose <init> or <event> line has an attribute that is not written as    *)
(* name = quoted value, alone or with another fault in the block.          *)
(***************************************************************************)
\* the text of a block with another opening line
WithOpening(text, open) == open \o read_line(text).rest
\* the text of a block with another closing line
WithClosing(text, close) == pop_line(text) \o close

\* a <header> block whose opening and closing lines carry whitespace
PaddedTextHeader == [text |-> XmlPaddedHeader, comment |-> <<>>, xml |-> TRUE]

\* the block of InitOne with whitespace around its opening line, and around
\* its closing line
InitPaddedOpen ==
    [text |-> WithOpening(InitOne.text, <<" ", "<", "i", "n", "i", "t", ">", " ", "\n">>),
          value |-> InitOne.value]
InitPaddedClose ==
    [text |-> WithClosing(InitOne.text, <<" ", "<", "/", "i", "n", "i", "t", ">", " ", "\n">>),
          value |-> InitOne.value]
PaddedInits == {InitPaddedOpen, InitPaddedClose}

\* the block of EventOne with whitespace before its opening line, and with
\* whitespace after its opening line and around its closing line
EventPaddedOpen ==
    [text |-> WithOpening(EventOne.text, <<" ", "<", "e", "v", "e", "n", "t", ">", "\n">>),
          event |-> FALSE,
     value |-> EventOne.value]
EventPaddedClose ==
    [text |-> WithClosing(WithOpening(EventOne.text, <<"<", "e", "v", "e", "n", "t", ">", " ",
          "\n">>), <<" ", "<", "/", "e", "v", "e", "n", "t", ">", " ", "\n">>),
     event |-> TRUE, value |-> EventOne.value]
PaddedEvents == {EventPaddedOpen, EventPaddedClose}

\* the outer closing tag with whitespace around it
PaddedClosingTag == [text |-> <<" ">> \o LHEF_LAST_LINE \o <<" ">> \o NL, closed |-> TRUE]

\* opening lines with the attribute a=v, whose value has no quotes
InitOpenUnquoted == <<"<", "i", "n", "i", "t", " ", "a", "=", "v", ">", "\n">>
EventOpenUnquoted == <<"<", "e", "v", "e", "n", "t", " ", "a", "=", "v", ">", "\n">>

\* <init> blocks with that opening line: the block of InitOne, and blocks
\* with a token too few, a token that is no number, no closing line
InitBadTag == [text |-> WithOpening(InitOne.text, InitOpenUnquoted), value |-> InitOne.value]
InitBadTagMissing ==
    [text |-> WithOpening(InitShortRecord.text, InitOpenUnquoted), value |-> InitOne.value]
InitBadTagBadToken ==
    [text |-> WithOpening(InitBadToken.text, InitOpenUnquoted), value |-> InitOne.value]
InitBadTagUnclosed ==
    [text |-> WithOpening(InitUnclosed.text, InitOpenUnquoted), value |-> InitOne.value]
BadTagInits == {InitBadTag, InitBadTagMissing, InitBadTagBadToken, InitBadTagUnclosed}

\* <event> blocks with that opening line, in the same way
EventBadTag ==
    [text |-> WithOpening(EventOne.text, EventOpenUnquoted), event |-> FALSE,
     value |-> EventOne.value]
EventBadTagMissing ==
    [text |-> WithOpening(EventShortRecord.text, EventOpenUnquoted), event |-> FALSE,
     value |-> EventOne.value]
EventBadTagBadToken ==
    [text |-> WithOpening(EventBadToken.text, EventOpenUnquoted), event |-> FALSE,
     value |-> EventOne.value]
EventBadTagUnclosed ==
    [text |-> WithOpening(EventUnclosed.text, EventOpenUnquoted), event |-> FALSE,
     value |-> EventOne.value]
BadTagEvents == {EventBadTag, EventBadTagMissing, EventBadTagBadToken, EventBadTagUnclosed}

\* streams with two faults: an unsupported version or none, a line that opens
\* no block, and a negative NPRUP
TwoFaults ==
    {[first |-> f, head |-> JunkHeader, init |-> InitNegative, events |-> <<EventOne>>,
      end |-> ClosingTag] : f \in {FirstLine10, FirstLine40}}

\* the streams with one such block, and the stream that ends after its first line
EdgeInputs ==
    {[first |-> FirstLine10, head |-> h, init |-> InitOne, events |-> <<EventOne>>,
      end |-> ClosingTag] : h \in EdgeHeaders}
    \cup {[first |-> FirstLine10, head |-> NoHeader, init |-> i, events |-> <<EventOne>>,
           end |-> ClosingTag] : i \in EdgeInits}
    \cup {[first |-> FirstLine10, head |-> NoHeader, init |-> InitOne, events |-> es,
           end |-> ClosingTag] : es \in {<<e>> : e \in EdgeEvents} \cup {<<EventOne,
                 e>> : e \in EdgeEvents}}
    \cup {[first |-> FirstLine10, head |-> NoHeader, init |-> NoInit, events |-> <<>>,
           end |-> NoClosingTag]}
    \cup {[first |-> FirstLine10, head |-> PaddedTextHeader, init |-> InitOne,
           events |-> <<EventOne>>, end |-> ClosingTag]}
    \cup {[first |-> FirstLine10, head |-> NoHeader, init |-> i, events |-> <<EventOne>>,
           end |-> ClosingTag] : i \in PaddedInits \cup BadTagInits}
    \cup {[first |-> FirstLine10, head |-> NoHeader, init |-> InitOne, events |-> es,
           end |-> PaddedClosingTag] :
               es \in {<<e>> : e \in PaddedEvents \cup BadTagEvents}
                      \cup {<<e, EventOne>> : e \in PaddedEvents \cup BadTagEvents}}
    \cup TwoFaults

Inputs ==
    {[first |-> f, head |-> h, init |-> i, events |-> es, end |-> e] :
        f \in GoodFirstLines, h \in HeaderBlocks, i \in InitBlocks,
        es \in UNION {[1..n -> EventBlocks] : n \in 0..MaxEvents}, e \in Ends}
    \cup {[first |-> f, head |-> NoHeader, init |-> InitOne, events |-> <<EventOne>>,
           end |-> ClosingTag] : f \in BadFirstLines}
    \cup EdgeInputs

\* the text of a stream
InputText(in) ==
    in.first.text \o in.head.text \o in.init.text
    \o Flatten([i \in 1..Len(in.events) |-> in.events[i].text]) \o in.end.text

(***************************************************************************)
(* The reader as a state machine: Reader::new on the stream, then hepeup   *)
(* as often as the caller likes; tests::test_read_write writes what a      *)
(* reader has read to a second stream and reads that one.                  *)
(***************************************************************************)
InitReader ==
    /\ WriterIdle
    /\ input \in Inputs
    /\ rpc = "start"
    /\ rstream = InputText(input)
    /\ reader = None
    /\ rlast = NoCall
    /\ rhist = <<>>
    /\ original = None

\* the record of a call: what it did, the line it read first, what it returned
Called(op, line, r) == [op |-> op, line |-> line, ok |-> r.ok, val |-> r.val, err |-> r.err]

\* the return of Reader::new: a Reader when every part was parsed, else no Reader
NewReturns(line, r) ==
    /\ rpc' = IF r.ok THEN "reading" ELSE IF r.err = Panic THEN "panicked" ELSE "failed"
    /\ reader' = IF r.ok THEN Some(r.val) ELSE None
    /\ rstream' = r.rest
    /\ rlast' = Called("new", line, r)

\* Reader::new(stream)
ReadNew ==
    /\ rpc = "start"
    /\ NewReturns(read_line(rstream).line, Reader_new(rstream))
    /\ UNCHANGED <<input, rhist, original>>
    /\ UNCHANGED wvars

\* the return of a hepeup whose event shares its storage with the events
\* returned before: they all become the new one
HepeupReturns_shares_event(line, r) ==
    /\ rpc' = IF ~r.ok /\ r.err = Panic THEN "panicked" ELSE "reading"
    /\ rstream' = r.rest
    /\ rlast' = Called("hepeup", line, r)
    /\ rhist' = [i \in 1..(Len(rhist) + 1) |-> r]

\* the return of hepeup: the Reader is as it was, the stream has moved on
HepeupReturns(line, r) ==
    /\ rpc' = IF ~r.ok /\ r.err = Panic THEN "panicked" ELSE "reading"
    /\ rstream' = r.rest
    /\ rlast' = Called("hepeup", line, r)
    /\ rhist' = Append(rhist, r)

\* reader.hepeup()
ReadHepeup ==
    /\ rpc = "reading"
    /\ Len(rhist) < MaxReads
    /\ HepeupReturns(read_line(rstream).line, Reader_hepeup(rstream))
    /\ UNCHANGED <<input, reader, original>>
    /\ UNCHANGED wvars

IsSome(r) == r.ok /\ r.val.some
IsNone(r) == r.ok /\ ~r.val.some

\* the events of the results that carry one
EventsOf(hist) == [i \in 1..Len(hist) |-> hist[i].val.val]

\* what tests::test_read_write writes for a reader and its events: new with
\* the version, xml_header and header when there are any, heprup, hepeup for
\* each event, finish
write_back(rd, events, ord) ==
    [ok |-> ~heprup_mismatch(rd.heprup) /\ \A i \in 1..Len(events) : ~hepeup_mismatch(events[i]),
     text |-> new_output(rd.version)
              \o (IF rd.xml_header.some THEN xml_header_output(rd.xml_header.val, ord)
                  ELSE <<>>)
              \o (IF rd.header # <<>> THEN header_output(rd.header) ELSE <<>>)
              \o heprup_output(rd.heprup, ord)
              \o Flatten([i \in 1..Len(events) |-> hepeup_output(events[i], ord)])
              \o finish_output]

\* the second stream of tests::test_read_write, for a second Reader to read
Rewritten(events, w) ==
    /\ original' = Some([reader |-> reader.val, events |-> events])
    /\ rpc' = IF w.ok THEN "start" ELSE "failed"
    /\ rstream' = w.text
    /\ rlast' = [op |-> "write_back", line |-> <<>>, ok |-> w.ok, val |-> <<>>,
                 err |-> [kind |-> "-", arg |-> <<>>]]

\* tests::test_read_write, up to the second reader: every event has been read
\* and hepeup has just returned None; what was read is written to a new stream
WriteBack(ord) ==
    /\ rpc = "reading"
    /\ ~original.some
    /\ rhist # <<>>
    /\ IsNone(rhist[Len(rhist)])
    /\ \A i \in 1..(Len(rhist) - 1) : IsSome(rhist[i])
    /\ Rewritten(EventsOf(SubSeq(rhist, 1, Len(rhist) - 1)),
                 write_back(reader.val, EventsOf(SubSeq(rhist, 1, Len(rhist) - 1)), ord))
    /\ reader' = None
    /\ rhist' = <<>>
    /\ UNCHANGED input
    /\ UNCHANGED wvars

NextReader ==
    \/ ReadNew
    \/ ReadHepeup
    \/ \E ord \in AttrOrders : WriteBack(ord)

SpecReader == InitReader /\ [][NextReader]_vars

(***************************************************************************)
(* Attribute extraction on its own: extract_xml_attr on the opening line   *)
(* of a block.  A line is the tag name, up to MaxAttrs attributes, each    *)
(* after a space, and an end.  An attribute is written as the format lays  *)
(* it out, or is a bare name, a value without quotes, or a value whose     *)
(* opening quote is never matched.                                         *)
(***************************************************************************)
\* attributes of one opening line
MaxAttrs == 2

\* an attribute as it stands in the line: its text, its name and value, the
\* quote that opens the value, and whether it is written as name = quoted value
Written(text, name, value, quote, form) ==
    [text |-> text, name |-> name, value |-> value, quote |-> quote, form |-> form]

AttrWritten ==
    {Written(<<"a", "=", "\"", "v", "\"">>, <<"a">>, <<"v">>, "\"", "quoted"),
     Written(<<"b", "=", "'", "'">>, <<"b">>, <<>>, "'", "quoted"),
     Written(<<"c", " ", "=", " ", "'", "x", "\"", "y", "'">>, <<"c">>, <<"x", "\"", "y">>, "'",
           "quoted"),
     Written(<<"d">>, <<"d">>, <<>>, "-", "bare"),
     Written(<<"e", "=", "v">>, <<"e">>, <<"v">>, "-", "unquoted"),
     Written(<<"f", "=", "\"", "v">>, <<"f">>, <<"v">>, "\"", "unclosed"),
     Written(<<"g", "=", "'", "v", "\"">>, <<"g">>, <<"v", "\"">>, "'", "unclosed")}

\* the ends of an opening line: '>', '>' after a space, and no '>'
TagEnds == {<<">", "\n">>, <<" ", ">", "\n">>, <<"\n">>}

\* the text of the attributes, each after a space
RECURSIVE AttrsWritten(_)
AttrsWritten(attrs) ==
    IF attrs = <<>> THEN <<>> ELSE SP \o Head(attrs).text \o AttrsWritten(Tail(attrs))

Tags ==
    {[attrs |-> attrs, end |-> e, text |-> INIT_START \o AttrsWritten(attrs) \o e] :
        attrs \in UNION {[1..n -> AttrWritten] : n \in 0..MaxAttrs}, e \in TagEnds}

InitAttr ==
    /\ WriterIdle
    /\ input \in Tags
    /\ rpc = "tag"
    /\ rstream = input.text
    /\ reader = None
    /\ rlast = NoCall
    /\ rhist = <<>>
    /\ original = None

\* extract_xml_attr(xml_tag) on the line
ExtractAttr ==
    /\ rpc = "tag"
    /\ rpc' = "extracted"
    /\ rlast' = Called("extract_xml_attr", rstream, extract_xml_attr(rstream))
    /\ UNCHANGED <<input, rstream, reader, rhist, original>>
    /\ UNCHANGED wvars

NextAttr == ExtractAttr

SpecAttr == InitAttr /\ [][NextAttr]_vars

(***************************************************************************)
(* The numbers of an event on their way through Writer::hepeup and         *)
(* Reader::hepeup: an event with one particle whose fields are drawn from  *)
(* the values below is written, and the text is read back.  The sources    *)
(* define Writer::hepeup twice, in writer.rs and in lib.rs: the event is   *)
(* written by either.                                                      *)
(***************************************************************************)
\* f64 values: zeros, values that ryu writes with and without an exponent,
\* the largest and the smallest positive value, infinities and NaNs
RoundTripFloats ==
    {FZero, Fin(TRUE, <<0>>, 0), FHalf, FNeg, FBig, F7000,
     Fin(FALSE, <<1, 2>>, -6), Fin(FALSE, <<1>>, -7), Fin(FALSE, <<1>>, 16),
     Fin(TRUE, <<1, 2, 3, 4, 5, 6, 7>>, -7),
     Fin(FALSE, <<1, 7, 9, 7, 6, 9, 3, 1, 3, 4, 8, 6, 2, 3, 1, 5, 7>>, 292),
     Fin(FALSE, <<5>>, -324),
     Inf(FALSE), Inf(TRUE), NaN, NaNWith(TRUE, 0), NaNWith(FALSE, 1)}

\* i32 values: zero, a negative value, i32::MAX and i32::MIN
RoundTripInts == {0, -1, 2147483647, -2147483647 - 1}

\* the event whose float fields are x and y in turn and whose integer fields are n
NumbersEvent(x, y, n) ==
    HEPEUP(1, n, x, y, x, y, <<n>>, <<n>>, <<<<n, 0>>>>, <<<<0, n>>>>,
           <<<<x, y, x, y, x>>>>, <<y>>, <<x>>, <<>>, EmptyAttr)

\* attribute values without a double quote: plain, empty, with a space, with
\* single quotes, with '>', with '=', and with a line break
RoundTripValues ==
    {<<"v">>, <<>>, <<"x", " ", "y">>, <<"'", "q", "'">>, <<"w", ">">>, <<"k", "=">>,
     <<"l", "\n", "m">>}

\* the non-empty attribute maps over AttrNames with these values
RoundTripAttrs ==
    UNION {[names -> RoundTripValues] : names \in (SUBSET AttrNames) \ {{}}}

\* the event with one particle and the attributes attr
AttrEvent(attr) ==
    HEPEUP(1, 0, FZero, FZero, FZero, FZero, <<0>>, <<0>>, <<<<0, 0>>>>, <<<<0, 0>>>>,
           <<<<FZero, FZero, FZero, FZero, FZero>>>>, <<FZero>>, <<FZero>>, <<>>, attr)

InitNumbers ==
    /\ WriterIdle
    /\ input \in {NumbersEvent(x, y, n) : x, y \in RoundTripFloats, n \in RoundTripInts}
                 \cup {AttrEvent(attr) : attr \in RoundTripAttrs}
    /\ rpc = "event"
    /\ rstream = <<>>
    /\ reader = None
    /\ rlast = NoCall
    /\ rhist = <<>>
    /\ original = None

\* writer.hepeup(&event): the text of the event block
WriteNumbers(ord) ==
    /\ rpc = "event"
    /\ ~hepeup_mismatch(input)
    /\ rpc' = "written"
    /\ rstream' = hepeup_output(input, ord)
    /\ rlast' = [op |-> "write", line |-> <<>>, ok |-> TRUE, val |-> <<>>,
                 err |-> [kind |-> "-", arg |-> <<>>]]
    /\ UNCHANGED <<input, reader, rhist, original>>
    /\ UNCHANGED wvars

\* writer.hepeup(&event) with the Writer of src/src/lib.rs
WriteNumbersLib(ord) ==
    /\ rpc = "event"
    /\ ~hepeup_mismatch(input)
    /\ rpc' = "written"
    /\ rstream' = lib_hepeup_output(input, ord)
    /\ rlast' = [op |-> "write", line |-> <<>>, ok |-> TRUE, val |-> <<>>,
                 err |-> [kind |-> "-", arg |-> <<>>]]
    /\ UNCHANGED <<input, reader, rhist, original>>
    /\ UNCHANGED wvars

\* reader.hepeup() on the text
ReadNumbers ==
    /\ rpc = "written"
    /\ rpc' = "read"
    /\ rstream' = Reader_hepeup(rstream).rest
    /\ rlast' = Called("hepeup", read_line(rstream).line, Reader_hepeup(rstream))
    /\ UNCHANGED <<input, reader, rhist, original>>
    /\ UNCHANGED wvars

NextNumbers ==
    \/ \E ord \in AttrOrders : WriteNumbers(ord)
    \/ \E ord \in AttrOrders : WriteNumbersLib(ord)
    \/ ReadNumbers

SpecNumbers == InitNumbers /\ [][NextNumbers]_vars

(***************************************************************************)
(* Vocabulary of the properties.                                           *)
(***************************************************************************)
WriteOps == {"header", "xml_header", "heprup", "hepeup", "finish"}

\* the state in which the protocol allows the operation
LegalState(op) ==
    IF op \in {"header", "xml_header", "heprup"} THEN "ExpectingHeaderOrInit"
    ELSE "ExpectingEventOrFinish"

\* the name under which an operation reports itself in BadState
AttemptName(op) ==
    CASE op = "header" -> "header"
      [] op = "xml_header" -> "xml header"
      [] op = "heprup" -> "init"
      [] op = "hepeup" -> "event"
      [] op = "finish" -> "finish"

\* the declared count of a run info differs from the length of one of its sequences
RunInfoCountsDiffer(r) ==
    \E len \in {Len(r.XSECUP), Len(r.XERRUP), Len(r.XMAXUP), Len(r.LPRUP)} : r.NPRUP # len

\* the declared count of an event differs from the length of one of its sequences
EventCountsDiffer(e) ==
    \E len \in {Len(e.IDUP), Len(e.ISTUP), Len(e.MOTHUP), Len(e.ICOLUP), Len(e.PUP),
                Len(e.VTIMUP), Len(e.SPINUP)} : e.NUP # len

\* the last call was heprup or hepeup with a count that does not match
LastCountsDiffer ==
    \/ last.op = "heprup" /\ RunInfoCountsDiffer(last.arg)
    \/ last.op = "hepeup" /\ EventCountsDiffer(last.arg)

\* the whole blocks the last call's operation can emit for its argument
LastBlocks ==
    CASE last.op = "header" -> {header_output(last.arg)}
      [] last.op = "xml_header" -> {xml_header_output(last.arg, ord) : ord \in AttrOrders}
      [] last.op = "heprup" -> {heprup_output(last.arg, ord) : ord \in AttrOrders}
      [] last.op = "hepeup" -> {hepeup_output(last.arg, ord) : ord \in AttrOrders}
      [] last.op = "finish" -> {finish_output}
      [] OTHER -> {}

(***************************************************************************)
(* C1.  A call made outside its legal state on a writer that is not Failed *)
(* returns BadState with the current state and the operation's name,       *)
(* writes nothing and leaves the state unchanged.                          *)
(***************************************************************************)
C1_BadStateWithoutEffect ==
    (last.op \in WriteOps /\ last.pre # "Failed" /\ last.pre # LegalState(last.op))
        => /\ last.result = BadState(last.pre, AttemptName(last.op))
           /\ last.written = <<>>
           /\ state = last.pre

C1_Witness ==
    /\ last.op = "header" /\ last.pre = "Finished"
    /\ last.result.kind = "BadState"

(***************************************************************************)
(* C2.  As claimed: on every writer on which no heprup has been written,   *)
(* whatever happened before, hepeup fails with BadState and changes        *)
(* neither the state nor the length of the stream.                         *)
(***************************************************************************)
C2_Original ==
    (last.op = "hepeup" /\ ~last.had_init)
        => /\ last.result.kind = "BadState"
           /\ state = last.pre
           /\ last.written = <<>>

(***************************************************************************)
(* C2, amended.  On every writer in ExpectingHeaderOrInit (no heprup       *)
(* written and no stream write failed), hepeup fails with                  *)
(* BadState(ExpectingHeaderOrInit, "event") and changes neither the state  *)
(* nor the stream.                                                         *)
(***************************************************************************)
C2_EventBeforeInitRejected ==
    (last.op = "hepeup" /\ last.pre = "ExpectingHeaderOrInit")
        => /\ last.result = BadState("ExpectingHeaderOrInit", "event")
           /\ state = "ExpectingHeaderOrInit"
           /\ last.written = <<>>
           /\ ~last.had_init

C2_Witness ==
    /\ last.op = "hepeup" /\ last.pre = "ExpectingHeaderOrInit"
    /\ ~EventCountsDiffer(last.arg)
    /\ Len(stream) > Len(new_output(<<"1", ".", "0">>))

(***************************************************************************)
(* C3.  In every state, a heprup or hepeup call whose declared count       *)
(* differs from the length of one of its sequences writes no bytes and     *)
(* leaves the state unchanged.                                             *)
(***************************************************************************)
C3_MismatchWithoutEffect ==
    LastCountsDiffer => (last.written = <<>> /\ last.io = "none" /\ state = last.pre)

C3_Witness ==
    /\ last.op = "heprup" /\ RunInfoCountsDiffer(last.arg) /\ last.arg.NPRUP > 0
    /\ last.pre = "ExpectingHeaderOrInit"

(***************************************************************************)
(* C4.  As claimed: a heprup or hepeup call with a mismatched count fails  *)
(* with the corresponding mismatch error in every state.                   *)
(***************************************************************************)
C4_Original ==
    /\ (last.op = "heprup" /\ RunInfoCountsDiffer(last.arg))
           => last.result = MismatchedSubprocesses
    /\ (last.op = "hepeup" /\ EventCountsDiffer(last.arg))
           => last.result = MismatchedParticles

(***************************************************************************)
(* C4, amended.  A heprup or hepeup call with a mismatched count always    *)
(* fails: with the corresponding mismatch error when the writer is in the  *)
(* call's legal state or Failed, and with BadState in every other state.   *)
(***************************************************************************)
C4_MismatchError ==
    LastCountsDiffer
        => IF last.pre \in {LegalState(last.op), "Failed"}
           THEN last.result = (IF last.op = "heprup" THEN MismatchedSubprocesses
                               ELSE MismatchedParticles)
           ELSE last.result = BadState(last.pre, AttemptName(last.op))

C4_Witness ==
    /\ last.op = "hepeup" /\ EventCountsDiffer(last.arg) /\ last.arg.NUP > 0
    /\ last.pre = "ExpectingEventOrFinish"
    /\ last.result = MismatchedParticles

(***************************************************************************)
(* C5.  When the stream write of a call fails, the state becomes Failed    *)
(* whatever it was, and the call returns the I/O error.                    *)
(***************************************************************************)
C5_WriteFailureLatches ==
    (last.op \in WriteOps /\ last.io = "failed")
        => (state = "Failed" /\ last.result = IoError)

C5_Witness ==
    /\ last.op = "finish" /\ last.io = "failed"
    /\ last.pre = "ExpectingEventOrFinish"

(***************************************************************************)
(* C6.  Failed is sticky: a call made in Failed leaves the state Failed,   *)
(* whether its write succeeds or fails.                                    *)
(***************************************************************************)
C6_FailedIsSticky == last.pre = "Failed" => state = "Failed"

C6_Witness ==
    /\ last.pre = "Failed" /\ last.op = "heprup" /\ last.io = "ok"
    /\ last.written \in LastBlocks

(***************************************************************************)
(* C7.  No call made in Failed returns success.                            *)
(***************************************************************************)
C7_NoSuccessAfterFailure ==
    (last.op \in WriteOps /\ last.pre = "Failed") => last.result.kind # "Ok"

C7_Witness ==
    /\ last.op = "hepeup" /\ last.pre = "Failed" /\ last.io = "ok"
    /\ last.result = WriteToFailed

(***************************************************************************)
(* C8.  As claimed: every call made in Failed, whatever its arguments,     *)
(* attempts the stream write, and returns WriteToFailed when the write     *)
(* succeeds.                                                               *)
(***************************************************************************)
C8_Original ==
    (last.op \in WriteOps /\ last.pre = "Failed")
        => /\ last.io # "none"
           /\ last.io = "ok" => last.result = WriteToFailed

(***************************************************************************)
(* C8, amended.  In Failed, every header, xml_header and finish call, and  *)
(* every heprup or hepeup call whose declared count matches its sequences, *)
(* attempts the stream write and returns WriteToFailed when the write      *)
(* succeeds; a heprup or hepeup call with a mismatched count returns       *)
(* without attempting the write.                                           *)
(***************************************************************************)
C8_WriteAttemptedInFailed ==
    (last.op \in WriteOps /\ last.pre = "Failed")
        => IF LastCountsDiffer THEN last.io = "none"
           ELSE /\ last.io # "none"
                /\ last.io = "ok" => (last.result = WriteToFailed /\ last.written # <<>>)

C8_Witness ==
    /\ last.op = "finish" /\ last.pre = "Failed" /\ last.io = "ok"
    /\ ~last.had_init

(***************************************************************************)
(* C9.  As claimed: no call made in Failed appends a comment, header,      *)
(* init or event block or the closing tag to the stream.                   *)
(***************************************************************************)
C9_Original ==
    (last.op \in WriteOps /\ last.pre = "Failed") => last.written \notin LastBlocks

(***************************************************************************)
(* C9, amended.  In Failed the writer accepts no call (none returns Ok and *)
(* the state stays Failed), but a call whose stream write succeeds still   *)
(* appends its whole block to the stream; only a call that returns before  *)
(* the write appends nothing.                                              *)
(***************************************************************************)
C9_FailedStillAppends ==
    (last.op \in WriteOps /\ last.pre = "Failed")
        => /\ last.result.kind \in {"WriteToFailed", "Io", "MismatchedSubprocesses",
                                    "MismatchedParticles"}
           /\ state = "Failed"
           /\ last.io = "ok" => last.written \in LastBlocks
           /\ last.io = "none" => last.written = <<>>
           /\ last.result.kind = "WriteToFailed" <=> last.io = "ok"

C9_Witness ==
    /\ last.op = "header" /\ last.pre = "Failed"
    /\ last.written = header_output(last.arg)

(***************************************************************************)
(* C10.  A call that returns Ok follows the protocol: header and           *)
(* xml_header stay in ExpectingHeaderOrInit, heprup goes from there to     *)
(* ExpectingEventOrFinish, hepeup stays there, finish goes from there to   *)
(* Finished.  No call moves the state backwards, and in Finished no call   *)
(* changes the state or writes.                                            *)
(***************************************************************************)
ProtocolRank(st) ==
    CASE st = "ExpectingHeaderOrInit" -> 0
      [] st = "ExpectingEventOrFinish" -> 1
      [] st = "Finished" -> 2
      [] st = "Failed" -> 3

C10_ProtocolOrder ==
    /\ (last.op \in WriteOps /\ last.result = OkResult)
           => /\ last.pre = LegalState(last.op)
              /\ state = (CASE last.op = "heprup" -> "ExpectingEventOrFinish"
                            [] last.op = "finish" -> "Finished"
                            [] OTHER -> last.pre)
    /\ last.op \in WriteOps \cup {"drop"}
           => /\ ProtocolRank(state) >= ProtocolRank(last.pre)
              /\ last.pre = "Finished" => (state = "Finished" /\ last.written = <<>>)

C10_Witness ==
    /\ last.op = "finish" /\ last.result = OkResult
    /\ state = "Finished" /\ last.pre = "ExpectingEventOrFinish"
    /\ ncalls = MaxCalls

(***************************************************************************)
(* C11.  A writer dropped in ExpectingEventOrFinish attempts finish once:  *)
(* when the write succeeds exactly one closing tag line is appended and    *)
(* ends the stream; when it fails the error is discarded: the drop returns *)
(* nothing to the caller.                                                  *)
(***************************************************************************)
\* the text ends with the given suffix
EndsWithText(s, suffix) ==
    Len(s) >= Len(suffix) /\ SubSeq(s, Len(s) - Len(suffix) + 1, Len(s)) = suffix

ClosingLine == LHEF_LAST_LINE \o <<"\n">>

C11_DropFinishes ==
    (last.op = "drop" /\ last.pre = "ExpectingEventOrFinish")
        => /\ pc = "gone"
           /\ last.io # "none"
           /\ last.result = OkResult
           /\ last.io = "ok"
                => (last.written = ClosingLine /\ EndsWithText(stream, ClosingLine)
                    /\ state = "Finished")
           /\ last.io = "failed"
                => (last.written # ClosingLine /\ Len(last.written) < Len(ClosingLine))

C11_Witness ==
    /\ last.op = "drop" /\ last.pre = "ExpectingEventOrFinish" /\ last.io = "ok"
    /\ ncalls >= 2 /\ ~finish_called

(***************************************************************************)
(* C12.  As claimed: whenever a writer on which finish was never called is *)
(* dropped, at whatever point, the stream ends with the closing tag.       *)
(***************************************************************************)
C12_Original ==
    (pc = "gone" /\ last.op = "drop" /\ ~finish_called) => EndsWithText(stream, ClosingLine)

(***************************************************************************)
(* C12, amended.  When a writer is dropped, the closing tag is emitted     *)
(* exactly when the writer is in ExpectingEventOrFinish and the stream     *)
(* write succeeds; a writer dropped in ExpectingHeaderOrInit, Failed or    *)
(* Finished writes nothing and its state is left as it is.                 *)
(***************************************************************************)
C12_DropClosesOnlyAfterInit ==
    last.op = "drop"
        => /\ last.written = ClosingLine
                <=> (last.pre = "ExpectingEventOrFinish" /\ last.io = "ok")
           /\ last.pre # "ExpectingEventOrFinish"
                => (last.written = <<>> /\ last.io = "none" /\ state = last.pre)

C12_Witness ==
    /\ last.op = "drop" /\ last.pre = "ExpectingHeaderOrInit"
    /\ ~finish_called /\ ~EndsWithText(stream, ClosingLine)

(***************************************************************************)
(* C13.  Writer::new writes the opening line with the quoted version and   *)
(* returns a writer in ExpectingHeaderOrInit; when the write fails it      *)
(* returns the I/O error, no writer exists and nothing is written later.   *)
(***************************************************************************)
OpeningLine(v) == LHEF_TAG_OPEN \o <<"\"">> \o v \o <<"\"", ">", "\n">>

C13_NewWritesOpeningLine ==
    /\ last.op = "new"
         => IF last.io = "ok"
            THEN /\ stream = OpeningLine(last.arg)
                 /\ state = "ExpectingHeaderOrInit" /\ pc = "live"
                 /\ last.result = OkResult
            ELSE /\ last.result = IoError
                 /\ state = "NoWriter" /\ pc = "gone"
    /\ pc # "unborn" => Prefix(stream, Len(OpeningLine(<<"1", ".", "0">>)))
                            \in {Prefix(OpeningLine(v), Len(stream)) : v \in Versions}
    /\ state = "NoWriter"
         => /\ last.op \in {"none", "new"}
            /\ stream = last.written
            /\ Len(stream) < Len(OpeningLine(<<"1", ".", "0">>))

C13_Witness ==
    /\ last.op = "new" /\ last.io = "ok"
    /\ stream = OpeningLine(<<"4", ".", "0">>)

(***************************************************************************)
(* Vocabulary of the properties of the reader.                             *)
(***************************************************************************)
\* the reader at work is the first one, on the stream of input
FirstReader == rpc # "idle" /\ ~original.some

\* a stream with a supported first line, header and <init> blocks as the format
\* lays them out, event blocks only and the closing tag
WellFormed(in) ==
    /\ in.first \in GoodFirstLines
    /\ in.head \in HeaderBlocks
    /\ in.init \in InitBlocks
    /\ \A i \in 1..Len(in.events) : in.events[i].event
    /\ in.end.closed

\* the result is a returned ParseError
IsParseError(r) == ~r.ok /\ r.err.kind \in ParseErrorKinds

(***************************************************************************)
(* C14.  Round trip, as claimed: when what a Reader has read is written    *)
(* with a Writer, a second Reader on the written bytes succeeds and has    *)
(* the version, header, xml header and run information of the first, and   *)
(* its hepeup calls return the events of the first, then None.             *)
(***************************************************************************)
C14_RoundTrip ==
    original.some
        => /\ rlast.op = "new" => rlast.ok
           /\ reader.some
                => /\ reader.val.version = original.val.reader.version
                   /\ reader.val.header = original.val.reader.header
                   /\ reader.val.xml_header = original.val.reader.xml_header
                   /\ reader.val.heprup = original.val.reader.heprup
           /\ \A i \in 1..Len(rhist) :
                /\ i <= Len(original.val.events)
                     => IsSome(rhist[i]) /\ rhist[i].val.val = original.val.events[i]
                /\ i = Len(original.val.events) + 1 => IsNone(rhist[i])

(***************************************************************************)
(* C15.  On a well-formed stream with k event blocks, the hepeup calls     *)
(* return the k events of the stream in its order, and call k + 1 returns  *)
(* None.                                                                   *)
(***************************************************************************)
C15_EventsThenNone ==
    (FirstReader /\ WellFormed(input))
        => /\ rpc \in {"start", "reading"}
           /\ \A i \in 1..Len(rhist) :
                /\ i <= Len(input.events)
                     => IsSome(rhist[i]) /\ rhist[i].val.val = input.events[i].value
                /\ i = Len(input.events) + 1 => IsNone(rhist[i])

C15_Witness ==
    /\ FirstReader /\ WellFormed(input)
    /\ input.events = <<EventOne, EventNone>>
    /\ Len(rhist) = 3
    /\ IsSome(rhist[1]) /\ IsSome(rhist[2]) /\ IsNone(rhist[3])

(***************************************************************************)
(* C16.  As claimed: once hepeup has returned None and the stream has no   *)
(* further line, every later hepeup call returns None.                     *)
(***************************************************************************)
C16_NoneForever ==
    \A i, j \in 1..Len(rhist) :
        (i < j /\ IsNone(rhist[i]) /\ rhist[i].rest = <<>>) => IsNone(rhist[j])

(***************************************************************************)
(* C17.  hepeup returns None only for a line that, trimmed, is the outer   *)
(* closing tag; for every other line that does not start with <event,      *)
(* the empty line at the end of the input among them, it returns           *)
(* BadEventStart with that line.                                           *)
(***************************************************************************)
C17_NoneOnlyAtClosingTag ==
    rlast.op = "hepeup"
        => /\ (rlast.ok /\ ~rlast.val.some) => Trim(rlast.line) = LHEF_LAST_LINE
           /\ (~StartsWith(rlast.line, EVENT_START) /\ Trim(rlast.line) # LHEF_LAST_LINE)
                => (~rlast.ok /\ rlast.err = BadEventStart(rlast.line))

C17_Witness ==
    /\ rlast.op = "hepeup" /\ rlast.line = <<>> /\ ~input.end.closed
    /\ ~rlast.ok /\ rlast.err.kind = "BadEventStart"
    /\ \A i \in 1..(Len(rhist) - 1) : IsSome(rhist[i])

(***************************************************************************)
(* C18.  As claimed: after a hepeup call has returned a parse error, no    *)
(* later hepeup call on the reader returns an event.                       *)
(***************************************************************************)
C18_NoEventAfterError ==
    \A i, j \in 1..Len(rhist) : (i < j /\ IsParseError(rhist[i])) => ~IsSome(rhist[j])

(***************************************************************************)
(* C19.  Version gate: a Reader exists only for a first line that quotes   *)
(* 1.0, 2.0 or 3.0, and version() is that value; for a first line that     *)
(* quotes another value V, Reader::new returns UnsupportedVersion(V),      *)
(* whatever follows the value on the line, and has read the first line     *)
(* only.                                                                   *)
(***************************************************************************)
C19_VersionGate ==
    FirstReader
        => /\ reader.some
                => /\ input.first.version.some
                   /\ input.first.version.val
                        \in {<<"1", ".", "0">>, <<"2", ".", "0">>, <<"3", ".", "0">>}
                   /\ reader.val.version = input.first.version.val
           /\ (/\ rlast.op = "new"
               /\ input.first.version.some
               /\ input.first.version.val
                    \notin {<<"1", ".", "0">>, <<"2", ".", "0">>, <<"3", ".", "0">>})
                => /\ ~rlast.ok
                   /\ rlast.err = UnsupportedVersion(input.first.version.val)
                   /\ rstream = SubSeq(InputText(input), Len(input.first.text) + 1,
                                       Len(InputText(input)))

C19_Witness ==
    /\ FirstReader /\ rlast.op = "new" /\ input.first = FirstLine40Junk
    /\ ~rlast.ok /\ rlast.err.kind = "UnsupportedVersion"

(***************************************************************************)
(* C20.  As claimed: a first line that is the outer opening tag without    *)
(* the version attribute makes Reader::new fail with MissingVersion.       *)
(***************************************************************************)
C20_MissingVersion ==
    (FirstReader /\ rlast.op = "new" /\ input.first = FirstLineNoAttribute)
        => (~rlast.ok /\ rlast.err = MissingVersion)

(***************************************************************************)
(* C21.  Header classification.  After a supported first line, a line at   *)
(* block level that opens neither a comment, a <header> nor <init>, an     *)
(* empty line and the end of the input among them, makes Reader::new fail  *)
(* with BadHeaderStart of that line, and nothing after that line is read.  *)
(* With header blocks as the format lays them out, parse_header stops at   *)
(* the opening line of <init>, returns that line and leaves the stream on  *)
(* the line after it; Reader::new then has the run information of the      *)
(* block, the attributes of its opening line included.                     *)
(***************************************************************************)
\* the text of a stream after its header blocks, and after its <init> block
AfterHead(in) ==
    in.init.text \o Flatten([i \in 1..Len(in.events) |-> in.events[i].text]) \o in.end.text
AfterInit(in) == Flatten([i \in 1..Len(in.events) |-> in.events[i].text]) \o in.end.text

C22_HeaderWithoutDelimiters ==
    (FirstReader /\ reader.some /\ input.head \in {CommentHeader, PaddedCommentHeader})
        => \/ reader.val.header = input.head.comment
           \/ reader.val.header \o NL = input.head.comment

(***************************************************************************)
(* C23.  Every HEPRUP the Reader holds has XSECUP, XERRUP, XMAXUP and      *)
(* LPRUP of length NPRUP, and every HEPEUP that hepeup returns has IDUP,   *)
(* ISTUP, MOTHUP, ICOLUP, PUP, VTIMUP and SPINUP of length NUP, whatever   *)
(* the stream: also when the block has more or fewer record lines than it  *)
(* declares.                                                               *)
(***************************************************************************)
HeprupLengths(r) ==
    /\ r.NPRUP >= 0
    /\ \A xs \in {r.XSECUP, r.XERRUP, r.XMAXUP} : Len(xs) = r.NPRUP
    /\ Len(r.LPRUP) = r.NPRUP

HepeupLengths(e) ==
    /\ e.NUP >= 0
    /\ Len(e.IDUP) = e.NUP /\ Len(e.ISTUP) = e.NUP
    /\ Len(e.MOTHUP) = e.NUP /\ Len(e.ICOLUP) = e.NUP
    /\ Len(e.PUP) = e.NUP
    /\ Len(e.VTIMUP) = e.NUP /\ Len(e.SPINUP) = e.NUP

C23_LengthsAreCounts ==
    /\ reader.some => HeprupLengths(reader.val.heprup)
    /\ \A i \in 1..Len(rhist) : IsSome(rhist[i]) => HepeupLengths(rhist[i].val.val)

C23_Witness ==
    /\ FirstReader /\ reader.some /\ reader.val.heprup.NPRUP = 1
    /\ input.events = <<EventOne, EventCountLow>>
    /\ Len(rhist) = 2 /\ IsSome(rhist[1]) /\ IsSome(rhist[2])
    /\ rhist[1].val.val.NUP = 1 /\ rhist[2].val.val.NUP = 0

(***************************************************************************)
(* C24.  As claimed: Reader::new and hepeup return on every input, also on *)
(* a block whose count NPRUP or NUP is negative, and what they return for  *)
(* such a block is an error value.                                         *)
(***************************************************************************)
C24_NeverAborts ==
    /\ rpc # "panicked"
    /\ (rlast.op \in {"new", "hepeup"} /\ ~rlast.ok)
            => (IsParseError(rlast) \/ rlast.err = XmlParseError)

(***************************************************************************)
(* Vocabulary of the properties of attribute extraction.                   *)
(***************************************************************************)
\* extract_xml_attr has returned
Extracted == rpc = "extracted" /\ rlast.op = "extract_xml_attr"
IsBadXmlTag == ~rlast.ok /\ rlast.err.kind = "BadXmlTag"

\* the line ends in '>'
Closed(tag) == EndsWith(Trim(tag.text), ">")
\* every attribute before the i-th is written as name = quoted value
QuotedBefore(tag, i) == \A j \in 1..(i - 1) : tag.attrs[j].form = "quoted"
\* the quote that opens the value of the i-th attribute stands nowhere after it
NeverMatched(tag, i) ==
    /\ Find(tag.attrs[i].value, LAMBDA c : c = tag.attrs[i].quote) = 0
    /\ \A j \in (i + 1)..Len(tag.attrs) :
            Find(tag.attrs[j].text, LAMBDA c : c = tag.attrs[i].quote) = 0
\* a line as the format lays it out: quoted values, no name twice, '>' at the end
WellFormedTag(tag) ==
    /\ Closed(tag)
    /\ QuotedBefore(tag, Len(tag.attrs) + 1)
    /\ \A i, j \in 1..Len(tag.attrs) : tag.attrs[i].name = tag.attrs[j].name => i = j
\* the pairs of the line
PairsOf(tag) ==
    [k \in {tag.attrs[i].name : i \in 1..Len(tag.attrs)} |->
        tag.attrs[CHOOSE i \in 1..Len(tag.attrs) : tag.attrs[i].name = k].value]

(***************************************************************************)
(* C25.  As claimed: attribute extraction fails with BadXmlTag whenever    *)
(* the line has a name that is not followed by '=', also when the name is  *)
(* the last thing before the closing '>'.                                  *)
(***************************************************************************)
C25_BareNameIsBadXmlTag ==
    (Extracted /\ \E i \in 1..Len(input.attrs) : input.attrs[i].form = "bare")
        => IsBadXmlTag

(***************************************************************************)
(* C26.  Attribute extraction fails with BadXmlTag of the line when the    *)
(* trimmed line does not end in '>'; with BadXmlTag when what follows a    *)
(* '=' is no quote; and with BadXmlTag when the quote that opens a value   *)
(* stands nowhere in the rest of the line.  The attribute at fault is the  *)
(* first of the line that is not written as name = quoted value.           *)
(***************************************************************************)
C26_MalformedTagIsBadXmlTag ==
    Extracted
        => /\ ~Closed(input) => (~rlast.ok /\ rlast.err = BadXmlTag(input.text))
           /\ \A i \in 1..Len(input.attrs) :
                /\ (/\ Closed(input)
                    /\ QuotedBefore(input, i)
                    /\ input.attrs[i].form = "unquoted") => IsBadXmlTag
                /\ (/\ Closed(input)
                    /\ QuotedBefore(input, i)
                    /\ input.attrs[i].form = "unclosed"
                    /\ NeverMatched(input, i)) => IsBadXmlTag

C26_Witness ==
    /\ Extracted /\ Closed(input) /\ Len(input.attrs) = 2
    /\ input.attrs[1].form = "quoted"
    /\ input.attrs[2].form = "unclosed" /\ input.attrs[2].quote = "'"
    /\ IsBadXmlTag

(***************************************************************************)
(* C27.  For a line as the format lays it out, attribute extraction        *)
(* returns the map of exactly the pairs of the line: values in single or   *)
(* double quotes, empty values, spaces around '=' and before '>'; a line   *)
(* without attributes gives the empty map.                                 *)
(***************************************************************************)
C27_WellFormedTagGivesItsPairs ==
    (Extracted /\ WellFormedTag(input)) => (rlast.ok /\ rlast.val = PairsOf(input))

C27_Witness ==
    /\ Extracted /\ WellFormedTag(input) /\ Len(input.attrs) = 2
    /\ input.attrs[1].quote # input.attrs[2].quote
    /\ \E i \in 1..2 : input.attrs[i].value = <<>>
    /\ rlast.ok /\ DOMAIN rlast.val = {input.attrs[1].name, input.attrs[2].name}

(***************************************************************************)
(* Vocabulary of the properties of numeric fields: the blocks with a       *)
(* token too few or a token that is no number, the field that fails in     *)
(* each, and the token where there is one.                                 *)
(***************************************************************************)
Failure(block, field, token) == [block |-> block, field |-> field, token |-> token]

InitFailures ==
    {Failure(InitMissingEntry, <<"N", "P", "R", "U", "P">>, None),
     Failure(InitShortRecord, <<"L", "P", "R", "U", "P", "(", "1", ")">>, None),
     Failure(InitBadToken, <<"E", "B", "M", "U", "P", "(", "1", ")">>, Some(<<"x">>)),
     Failure(InitCountHigh, <<"X", "S", "E", "C", "U", "P", "(", "2", ")">>, Some(<<"<", "/",
           "i", "n", "i", "t", ">">>))}

EventFailures ==
    {Failure(EventMissingEntry, <<"A", "Q", "C", "D", "U", "P">>, None),
     Failure(EventShortRecord, <<"P", "U", "P", "(", "2", ",", " ", "3", ")">>, None),
     Failure(EventBadToken, <<"P", "U", "P", "(", "1", ",", " ", "3", ")">>, Some(<<"1", ".",
           "5", "x">>)),
     Failure(EventBadInt, <<"I", "D", "R", "U", "P">>, Some(<<"1", ".", "0">>)),
     Failure(EventCountHigh, <<"I", "D", "U", "P", "(", "2", ")">>, Some(<<"<", "/", "e", "v",
           "e", "n", "t", ">">>))}

\* Reader::new has just read the <init> block of the failure
InitRead(f) == FirstReader /\ rlast.op = "new" /\ input.init = f.block
\* hepeup has just read the event block of the failure
EventRead(f) ==
    /\ FirstReader /\ rlast.op = "hepeup"
    /\ Len(rhist) \in 1..Len(input.events)
    /\ input.events[Len(rhist)] = f.block

FailureOf(f) ==
    IF f.token.some THEN ConversionError(f.token.val) ELSE MissingEntry(f.field)

C29_EndOfFileNamesBlock ==
    FirstReader
        => /\ (rlast.op = "new" /\ input.head \in UnclosedHeaders)
                => /\ ~rlast.ok
                   /\ rlast.err = EndOfFile(<<"h", "e", "a", "d", "e", "r">>)
                   /\ rstream = <<>>
           /\ (rlast.op = "new" /\ input.init = InitUnclosed)
                => /\ ~rlast.ok
                   /\ rlast.err = EndOfFile(<<"i", "n", "i", "t">>)
                   /\ rstream = <<>>
           /\ (/\ rlast.op = "hepeup"
               /\ Len(rhist) \in 1..Len(input.events)
               /\ input.events[Len(rhist)] = EventUnclosed)
                => /\ ~rlast.ok
                   /\ rlast.err = EndOfFile(<<"e", "v", "e", "n", "t">>)
                   /\ rstream = <<>>

C29_Witness ==
    /\ FirstReader /\ rlast.op = "hepeup" /\ input.events = <<EventOne, EventUnclosed>>
    /\ Len(rhist) = 2 /\ IsSome(rhist[1])
    /\ ~rlast.ok /\ rlast.err.kind = "EndOfFile" /\ rstream = <<>>

(***************************************************************************)
(* C30.  As claimed: every f64 field of an event that Writer::hepeup       *)
(* writes is read back by the Reader as the value it was, bit for bit,     *)
(* and every i32 field is read back equal.                                 *)
(***************************************************************************)
C30_NumbersRoundTrip ==
    rpc = "read" => (rlast.ok /\ rlast.val.some /\ rlast.val.val = input)

(***************************************************************************)
(* Vocabulary of the order of Reader::new: the blocks at which it fails,   *)
(* with the number of their lines it has read when it returns, or, at the  *)
(* end of the input, with all that was left of the stream.                 *)
(***************************************************************************)
RECURSIVE AfterLines(_, _)
\* the text after its first n lines
AfterLines(s, n) == IF n = 0 THEN s ELSE AfterLines(read_line(s).rest, n - 1)

Stop(block, lines, kinds) ==
    [block |-> block, lines |-> lines, all |-> FALSE, kinds |-> kinds]
StopAtEnd(block, kinds) == [block |-> block, lines |-> 0, all |-> TRUE, kinds |-> kinds]

\* the text that is left at a stop
AfterStop(s, stop) == IF stop.all THEN <<>> ELSE AfterLines(s, stop.lines)

\* header blocks: the line that cannot be classified, the end of the input,
\* or the closing line of a <header> that is no XML document
HeaderStops ==
    {Stop(JunkHeader, 1, {"BadHeaderStart"}), Stop(BlankHeader, 1, {"BadHeaderStart"}),
     Stop(CommentJunkHeader, 4, {"BadHeaderStart"}),
     Stop(CommentTextHeader, 1, {"BadHeaderStart"}),
     StopAtEnd(UnclosedComment, {"EndOfFile"}), StopAtEnd(UnclosedHeader, {"EndOfFile"}),
     Stop(BrokenHeader, 3, {"XmlParseError"})}

\* <init> blocks: the line with the field that fails, the end of the input,
\* or the closing line when the opening line has a bad attribute
InitStops ==
    {Stop(NoInit, 1, {"BadHeaderStart"}),
     StopAtEnd(InitUnclosed, {"EndOfFile"}), Stop(InitMissingEntry, 2, {"MissingEntry"}),
     Stop(InitShortRecord, 3, {"MissingEntry"}), Stop(InitBadToken, 2, {"ConversionError"}),
     Stop(InitCountHigh, 4, {"ConversionError"}), StopAtEnd(InitPaddedClose, {"EndOfFile"}),
     Stop(InitBadTag, 4, {"BadXmlTag"}), Stop(InitBadTagMissing, 3, {"MissingEntry"}),
     Stop(InitBadTagBadToken, 2, {"ConversionError"}),
     StopAtEnd(InitBadTagUnclosed, {"EndOfFile"})}

\* the blocks Reader::new reads without an error
HeadersRead == HeaderBlocks \cup {PaddedCommentHeader, PaddedTextHeader}
InitsRead == InitBlocks \cup {InitCountLow, InitPaddedOpen}

\* Reader::new has failed with one of the kinds and has left the text
NewFailed(kinds, left) ==
    /\ ~rlast.ok /\ ~reader.some
    /\ rlast.err.kind \in kinds
    /\ rstream = left

(***************************************************************************)
(* C31.  Reader::new reads the first line, then the header blocks, then    *)
(* the <init> block, of one stream.  It returns the error of the first of  *)
(* the three that fails, whatever faults the later ones have, and has then *)
(* read no line after the one at which the error shows.  There is a Reader *)
(* only when all three were read, and the stream is then on the line after *)
(* the closing line of <init>: the first hepeup call reads that line.      *)
(***************************************************************************)
C31_NewReadsInOrder ==
    FirstReader
        => /\ rlast.op = "new"
                => /\ input.first \in BadFirstLines
                        => NewFailed({"BadFirstLine", "UnsupportedVersion", "MissingVersion"},
                                     AfterLines(InputText(input), 1))
                   /\ \A h \in HeaderStops :
                        (input.first \in GoodFirstLines /\ input.head = h.block)
                            => NewFailed(h.kinds,
                                         AfterStop(input.head.text \o AfterHead(input), h))
                   /\ \A i \in InitStops :
                        (/\ input.first \in GoodFirstLines
                         /\ input.head \in HeadersRead
                         /\ input.init = i.block)
                            => NewFailed(i.kinds, AfterStop(AfterHead(input), i))
                   /\ rlast.ok <=> /\ input.first \in GoodFirstLines
                                   /\ input.head \in HeadersRead
                                   /\ input.init \in InitsRead
                   /\ rlast.ok => (reader.some /\ rstream = AfterInit(input))
           /\ reader.some => input.init \in InitsRead
           /\ (rlast.op = "hepeup" /\ Len(rhist) = 1)
                => rlast.line = read_line(AfterInit(input)).line

C31_Witness ==
    /\ FirstReader /\ rlast.op = "new"
    /\ input.first = FirstLine40 /\ input.head = JunkHeader /\ input.init = InitNegative
    /\ ~rlast.ok /\ rlast.err.kind = "UnsupportedVersion"
    /\ rstream = input.head.text \o AfterHead(input)

(***************************************************************************)
(* C32.  parse_init reads NPRUP lines after the line of the scalar fields  *)
(* and parse_event NUP lines, one record from each.  What follows these    *)
(* lines, up to the closing line, is the info: a block with a record line  *)
(* more than it declares has that line in its info, and in a block with a  *)
(* record line less the closing line is read as a record.  A record line   *)
(* with too few tokens gives MissingEntry with the first field that has no *)
(* token, and the line after it is not read.                               *)
(***************************************************************************)
\* the calls before the i-th hepeup call have each returned an event
EventsBefore(i) == \A j \in 1..(i - 1) : IsSome(rhist[j])

\* the text of a stream after its i-th event block
AfterEvent(in, i) ==
    Flatten([j \in 1..(Len(in.events) - i) |-> in.events[i + j].text]) \o in.end.text

\* the info is what stands between the record lines and the closing line
InfoAfterRecords(text, count, info, close) ==
    /\ pop_line(AfterLines(text, 2 + count)) = info
    /\ Trim(LastLine(AfterLines(text, 2 + count))) = close

C32_OneRecordEachLine ==
    FirstReader
        => /\ reader.some
                => InfoAfterRecords(input.init.text, reader.val.heprup.NPRUP,
                                    reader.val.heprup.info, INIT_END)
           /\ \A i \in 1..Len(rhist) :
                (i <= Len(input.events) /\ EventsBefore(i) /\ IsSome(rhist[i]))
                    => InfoAfterRecords(input.events[i].text, rhist[i].val.val.NUP,
                                        rhist[i].val.val.info, EVENT_END)
           /\ (rlast.op = "new" /\ input.init = InitCountHigh)
                => /\ ~rlast.ok /\ rlast.err = ConversionError(INIT_END)
                   /\ rstream = AfterInit(input)
           /\ (rlast.op = "new" /\ input.init = InitShortRecord)
                => /\ ~rlast.ok
                   /\ rlast.err = MissingEntry(<<"L", "P", "R", "U", "P", "(", "1", ")">>)
                   /\ rstream = AfterLines(AfterHead(input), 3)
           /\ \A i \in 1..Len(input.events) :
                (rlast.op = "hepeup" /\ Len(rhist) = i /\ EventsBefore(i))
                    => /\ input.events[i] = EventCountHigh
                            => /\ ~rlast.ok /\ rlast.err = ConversionError(EVENT_END)
                               /\ rstream = AfterEvent(input, i)
                       /\ input.events[i] = EventShortRecord
                            => /\ ~rlast.ok
                               /\ rlast.err = MissingEntry(<<"P", "U", "P", "(", "2", ",", " ",
                                     "3", ")">>)
                               /\ rstream = EVENT_END \o NL \o AfterEvent(input, i)

C32_Witness ==
    /\ FirstReader /\ rlast.op = "hepeup" /\ Len(rhist) = 1
    /\ input.init = InitCountLow /\ input.events = <<EventOne>>
    /\ reader.some /\ reader.val.heprup.NPRUP = 0
    /\ reader.val.heprup.info = <<"1", ".", "5", "e", "2", "0", " ", "0", ".", "5", " ", "-",
          "2", ".", "5", " ", "1", "\n">>
    /\ IsSome(rhist[1]) /\ rhist[1].val.val.NUP = 1 /\ rhist[1].val.val.info = <<>>

(***************************************************************************)
(* C33.  As claimed: a line that opens or closes a block is recognized     *)
(* with whitespace before and after it as it is without: the lines of a    *)
(* comment, of <header>, of <init>, of <event>, and the outer closing tag. *)
(* A stream with such whitespace is read as the stream without it.         *)
(***************************************************************************)
C33_BoundariesTrimmed ==
    FirstReader
        => /\ (rlast.op = "new" /\ input.head \in {PaddedCommentHeader, PaddedTextHeader})
                => rlast.ok
           /\ (rlast.op = "new" /\ input.init \in PaddedInits)
                => (rlast.ok /\ reader.val.heprup = InitOne.value)
           /\ (rhist # <<>> /\ input.events # <<>> /\ input.events[1] \in PaddedEvents)
                => (IsSome(rhist[1]) /\ rhist[1].val.val = EventOne.value)
           /\ (/\ input.end = PaddedClosingTag
               /\ Len(rhist) = Len(input.events) + 1
               /\ \A i \in 1..Len(input.events) : IsSome(rhist[i]))
                => IsNone(rhist[Len(rhist)])

(***************************************************************************)
(* C34.  As claimed: the second line of every event block that             *)
(* Writer::hepeup writes is the six fields NUP IDRUP XWGTUP SCALUP AQEDUP  *)
(* AQCDUP, each as the writer formats it, with one space between two       *)
(* fields and a newline after the last: the line has six tokens.           *)
(***************************************************************************)
\* the texts a writer has for an f64
FloatTexts(f) == {FmtRyu(f), FmtF64Display(f)}

\* the line of the scalar fields of a written block
ScalarLine(block) == read_line(read_line(block).rest).line

\* the line is its six tokens, a space between two of them, and a newline
SixFields(line, tokens, event) ==
    /\ Len(tokens) = 6
    /\ line = tokens[1] \o SP \o tokens[2] \o SP \o tokens[3] \o SP \o tokens[4] \o SP
              \o tokens[5] \o SP \o tokens[6] \o NL
    /\ tokens[1] = FmtInt(event.NUP) /\ tokens[2] = FmtInt(event.IDRUP)
    /\ tokens[3] \in FloatTexts(event.XWGTUP) /\ tokens[4] \in FloatTexts(event.SCALUP)
    /\ tokens[5] \in FloatTexts(event.AQEDUP) /\ tokens[6] \in FloatTexts(event.AQCDUP)

C34_ScalarLineHasSixFields ==
    rpc = "written"
        => SixFields(ScalarLine(rstream), SplitWhitespace(ScalarLine(rstream)), input)

(***************************************************************************)
(* C35.  What version(), header(), xml_header() and heprup() return is     *)
(* what Reader::new has put into the Reader: after any number of hepeup    *)
(* calls, with events or with errors, the Reader holds the values of its   *)
(* construction.  What a hepeup call has returned stays as it was          *)
(* returned: every result is the one that Reader::hepeup gives on the      *)
(* stream as the calls before it left it, whatever was returned later.     *)
(***************************************************************************)
RECURSIVE StreamBefore(_, _)
\* the stream of a Reader on the text s before its i-th hepeup call
StreamBefore(s, i) ==
    IF i = 1 THEN Reader_new(s).rest ELSE Reader_hepeup(StreamBefore(s, i - 1)).rest

C35_AccessorsFixedEventsFresh ==
    (FirstReader /\ reader.some)
        => /\ reader.val = Reader_new(InputText(input)).val
           /\ \A i \in 1..Len(rhist) :
                rhist[i] = Reader_hepeup(StreamBefore(InputText(input), i))

C35_Witness ==
    /\ FirstReader /\ reader.some /\ Len(rhist) = 3
    /\ input.head = CommentHeader /\ input.init = InitNone
    /\ input.events = <<EventOne, JunkLine>>
    /\ IsSome(rhist[1]) /\ IsParseError(rhist[2]) /\ IsNone(rhist[3])
    /\ reader.val.heprup = InitNone.value
    /\ rhist[1].val.val = EventOne.value

(***************************************************************************)
(* C36.  As claimed: the bytes of a sequence of Writer calls that all      *)
(* returned Ok (new, xml_header and header, heprup, k hepeup calls,        *)
(* finish) are a stream the Reader reads: Reader::new succeeds on them,    *)
(* the first k hepeup calls return an event each and the next returns      *)
(* None.                                                                   *)
(***************************************************************************)
C36_WrittenStreamIsRead ==
    (original.some /\ (rlast.op = "write_back" => rlast.ok))
        => /\ rlast.op = "new" => rlast.ok
           /\ \A i \in 1..Len(rhist) :
                /\ i <= Len(original.val.events) => IsSome(rhist[i])
                /\ i = Len(original.val.events) + 1 => IsNone(rhist[i])

(***************************************************************************)
(* C37.  As claimed: a HEPRUP with attributes, written with                *)
(* Writer::heprup and read back, has the attributes that were written.     *)
(***************************************************************************)
C37_InitAttributesReadBack ==
    (original.some /\ reader.some /\ original.val.reader.heprup.attr # EmptyAttr)
        => reader.val.heprup.attr = original.val.reader.heprup.attr

(***************************************************************************)
(* The attributes of an event on their way through Writer::hepeup and      *)
(* Reader::hepeup.                                                         *)
(***************************************************************************)
\* some value of the map holds a line break
HasLineBreak(attr) == \E k \in DOMAIN attr : \E i \in 1..Len(attr[k]) : attr[k][i] = "\n"

\* the event read back holds the attributes of the event written
AttrReadBack == rlast.ok /\ rlast.val.some /\ rlast.val.val.attr = input.attr

\* C38, as stated: an event whose attribute map is not empty and whose values
\* hold no double quote is written by Writer::hepeup in any order of the
\* attributes, and the event read back holds an equal attribute map.
C38_EventAttributesReadBack ==
    (rpc = "read" /\ input.attr # EmptyAttr) => AttrReadBack

\* C38, amended: an event whose attribute map is not empty and whose values
\* hold neither a double quote nor a line break is written by Writer::hepeup
\* in any order of the attributes, and the event read back holds an equal
\* attribute map.
C38_EventAttributesOnOneLineReadBack ==
    (rpc = "read" /\ input.attr # EmptyAttr /\ ~HasLineBreak(input.attr)) => AttrReadBack

\* two attributes, one value with a space and one with single quotes, were
\* written with b before a and were read back
C38_Witness ==
    /\ rpc = "read"
    /\ input.attr = [k \in AttrNames |-> IF k = <<"a">> THEN <<"x", " ", "y">>
                                                   ELSE <<"'", "q", "'">>]
    /\ rlast.line =
        <<"<", "e", "v", "e", "n", "t", " ", "b", "=", "\"", "'", "q", "'", "\"",
         " ", "a", "=", "\"", "x", " ", "y", "\"", ">">> \o NL
    /\ AttrReadBack

(***************************************************************************)
(* The closing line in runs of the Writer without a failed write.  A       *)
(* failed write leaves the writer in Failed, and Failed is never left: a   *)
(* writer that is not Failed has seen no failed write.                     *)
(***************************************************************************)
\* the places of the stream where the text stands
Occurrences(s, text) ==
    {i \in 1..Len(s) : i + Len(text) - 1 <= Len(s) /\ SubSeq(s, i, i + Len(text) - 1) = text}

\* the closing line stands in the stream at most once, and at its end
ClosedOnceAtEnd(s) ==
    /\ Cardinality(Occurrences(s, ClosingLine)) <= 1
    /\ Occurrences(s, ClosingLine) # {} => EndsWithText(s, ClosingLine)

\* C39: while no write has failed, the closing line is written at most once
\* and nothing is written after it: the call that writes it leaves the writer
\* Finished, no call on a Finished writer writes anything, and a drop of a
\* writer that is Finished, in ExpectingHeaderOrInit or Failed writes nothing.
C39_ClosingLineOnceAndLast ==
    [][/\ state' # "Failed" => ClosedOnceAtEnd(stream')
       /\ (state' # "Failed" /\ last'.op \in {"finish", "drop"} /\ last'.written # <<>>)
              => (last'.written = ClosingLine /\ state' = "Finished")
       /\ state = "Finished" => (stream' = stream /\ state' = "Finished")
       /\ (pc' = "gone" /\ state \in {"Finished", "ExpectingHeaderOrInit", "Failed"})
              => stream' = stream]_vars

\* finish has written the closing line, a later call was turned down, and the
\* writer was dropped: the closing line still ends the stream
C39_Witness ==
    /\ pc = "gone" /\ last.op = "drop" /\ last.pre = "Finished"
    /\ ncalls = MaxCalls
    /\ finish_called
    /\ last.written = <<>>
    /\ ClosedOnceAtEnd(stream) /\ EndsWithText(stream, ClosingLine)

(***************************************************************************)
(* C40.  The attributes of a block are taken from its opening line after   *)
(* the block was read to its closing line.  A block is compared with the   *)
(* same block under the plain opening line, whose attributes are in order. *)
(***************************************************************************)
\* parse_init and parse_event on a block as it would be read if its opening
\* line were the plain one; rest is what follows the block in the stream
PlainInit(text, rest) ==
    parse_init(INIT_START \o <<">">> \o NL, read_line(text).rest \o rest)
PlainEvent(text, rest) ==
    parse_event(EVENT_START \o <<">">> \o NL, read_line(text).rest \o rest)

\* the result r of reading a block, against the result plain of reading it
\* under the plain opening line: an error in the lines of the block is the
\* error returned, and BadXmlTag is returned only for a block whose lines were
\* all read without an error, with the stream after the closing line that
\* ended the block
TagErrorComesLast(r, plain) ==
    /\ ~plain.ok => (~r.ok /\ r.err = plain.err /\ r.rest = plain.rest)
    /\ (~r.ok /\ r.err.kind = "BadXmlTag") => (plain.ok /\ r.rest = plain.rest)

\* C40: a malformed opening tag of <init> or <event> is reported as BadXmlTag
\* only when every field of the block was parsed and its closing line was
\* found; MissingEntry, ConversionError and EndOfFile in the block are
\* returned instead of it; after BadXmlTag from hepeup the stream stands
\* after the closing line of the event, and the next call reads what follows.
C40_TagErrorAfterBlock ==
    FirstReader
        => /\ (/\ rlast.op = "new"
               /\ input.first \in GoodFirstLines /\ input.head \in HeadersRead
               /\ StartsWith(input.init.text, INIT_START))
                => /\ TagErrorComesLast([ok |-> rlast.ok, err |-> rlast.err, rest |-> rstream],
                                        PlainInit(input.init.text, AfterInit(input)))
                   /\ input.init = InitBadTag
                        => /\ ~rlast.ok /\ rlast.err.kind = "BadXmlTag"
                           /\ rstream = AfterInit(input)
                   /\ input.init = InitBadTagMissing
                        => ~rlast.ok /\ rlast.err.kind = "MissingEntry"
                   /\ input.init = InitBadTagBadToken
                        => ~rlast.ok /\ rlast.err.kind = "ConversionError"
                   /\ input.init = InitBadTagUnclosed
                        => ~rlast.ok /\ rlast.err.kind = "EndOfFile"
           /\ \A i \in 1..Len(rhist) :
                (/\ i <= Len(input.events) /\ EventsBefore(i)
                 /\ StartsWith(input.events[i].text, EVENT_START))
                    => TagErrorComesLast(rhist[i],
                                         PlainEvent(input.events[i].text, AfterEvent(input, i)))
           /\ (reader.some /\ Len(rhist) >= 1 /\ Len(input.events) >= 1)
                => /\ input.events[1] = EventBadTag
                        => /\ ~rhist[1].ok /\ rhist[1].err.kind = "BadXmlTag"
                           /\ rhist[1].rest = AfterEvent(input, 1)
                   /\ input.events = <<EventBadTagMissing>>
                        => ~rhist[1].ok /\ rhist[1].err.kind = "MissingEntry"
                   /\ input.events = <<EventBadTagBadToken>>
                        => ~rhist[1].ok /\ rhist[1].err.kind = "ConversionError"
                   /\ input.events = <<EventBadTagUnclosed>>
                        => ~rhist[1].ok /\ rhist[1].err.kind = "EndOfFile"
           /\ (reader.some /\ Len(rhist) >= 2 /\ input.events = <<EventBadTag, EventOne>>)
                => IsSome(rhist[2]) /\ rhist[2].val.val = EventOne.value

\* hepeup returned BadXmlTag for an event with a malformed opening tag, and
\* the next call returned the event that follows it
C40_Witness ==
    /\ FirstReader /\ reader.some /\ Len(rhist) = 2
    /\ input.events = <<EventBadTag, EventOne>>
    /\ ~rhist[1].ok /\ rhist[1].err.kind = "BadXmlTag"
    /\ rhist[1].rest = EventOne.text \o input.end.text
    /\ IsSome(rhist[2]) /\ rhist[2].val.val = EventOne.value

====
